---- MODULE Spec2Model ----
(***************************************************************************)
(* Extraction / merge reconciliation engine of ss14_tracker.py.            *)
(*                                                                         *)
(* Text is modelled as a sequence of glyphs.  A glyph is one character,    *)
(* written as a one-character string; a character outside ASCII is written *)
(* by its code point ("U4E2D" is the CJK ideograph U+4E2D), and the string *)
(* literals of the program that are only ever concatenated or searched as  *)
(* a whole ("Parent_", the context labels, file names) are one glyph each. *)
(*                                                                         *)
(* A YAML / JSON value is a record [t |-> tag, v |-> payload]:             *)
(*   "str"  v is the text          "int"  v is the number                  *)
(*   "list" v is a sequence of texts                                       *)
(*   "null" the YAML null          "dict" v is a sequence of [k, v] pairs  *)
(*   "seq"  a document that is a sequence of items                         *)
(* A mapping keeps its pairs in document order, as ruamel's CommentedMap   *)
(* and Python's dict do.                                                   *)
(***************************************************************************)
EXTENDS Integers, Sequences, FiniteSets, TLC

\* is_ftl_key: the argument `text`, whether the call has returned, its result
VARIABLES ftl_text, ftl_done, ftl_result

\* One record taken through process_node_extract and process_node_merge:
\* the arguments (node, fields, filter_ftl), the position, extract's outputs
\* (extracted_data, stats) and merge's (translation_map in, node, result and
\* used_keys out)
VARIABLES n_node, n_fields, n_filter, n_pc, n_data, n_stats, n_map, n_out, n_res, n_used

\* The files on disk (path -> parsed content), the translation file, and a run
\* of merge_translations: its arguments, position, translation_map, used_keys,
\* stats, the list yaml_files and the index into it, what happened to each file
\* visited so far, the number of runs started, and the files as they were when
\* the current run started
VARIABLES fs, translation_file, m_args, m_pc, m_map, m_used, m_stats, m_files, m_i, m_log, m_runs, m_fs0

\* The catalog file and the hash cache file, and a run of extract_strings: its
\* arguments, position, extracted_data, stats, the list yaml_files and the index
\* into it, hash_cache, existing_data, new_hash_cache, the files loaded so far
\* with their content, the number of runs started and of edits made to the
\* source tree, and what the current run started from: the catalog file and
\* the cache file as they were, whether the run before was incremental,
\* whether the tree was edited since the run before, whether it has been
\* edited since this run, and the files this run has written, in order
VARIABLES catalog_file, cache_file, x_args, x_pc, x_data, x_stats, x_files, x_i, x_hash_cache, x_existing, x_new_cache, x_scanned, x_runs, x_edits, x_hist

\* A run of extract_strings_by_folder: its arguments, position, the list
\* yaml_files and the index into it, folder_data (the groups in the order
\* they were created), stats, and the JSON files of the output directory
VARIABLES f_args, f_pc, f_files, f_i, f_folder_data, f_stats, f_out

\* A call of PZClient._request_with_retry: its argument `method`, position,
\* the loop variable `attempt`, last_error, how each HTTP attempt made so far
\* ended, the sleeps taken, and what the call returned or raised
VARIABLES r_method, r_pc, r_attempt, r_last_error, r_log, r_slept, r_result

retryVars == <<r_method, r_pc, r_attempt, r_last_error, r_log, r_slept, r_result>>

\* The desktop interface: App.is_running and App.stop_requested, whether the
\* module's _progress_callback and _stop_check_callback are set, and for
\* every worker thread started by run_in_thread its position in _run and,
\* until the thread ends, what func returned, the outcome _run reported (the
\* status text it set) and the phase the worker was in when do_stop was
\* first accepted during its run; the number of calls of run_in_thread made;
\* and how far the loop of the operation in progress had got when do_stop was
\* first accepted during it
VARIABLES is_running, stop_requested, progress_callback, stop_check_callback, a_pc, a_result, a_outcome, a_stop, a_calls, stop_at

appVars == <<is_running, stop_requested, progress_callback, stop_check_callback,
             a_pc, a_result, a_outcome, a_stop, a_calls, stop_at>>

\* A call of PZClient.upload_folder or upload_translation_folder: which of the
\* two, the position, the list json_files, the loop index and stats
VARIABLES u_args, u_pc, u_files, u_i, u_stats

upVars == <<u_args, u_pc, u_files, u_i, u_stats>>

\* A call of run_full_workflow: by_folder and whether project_id and token
\* are given, the step in progress, the steps completed so far with their
\* results, and the value returned
VARIABLES w_args, w_pc, w_ret, w_steps

wfVars == <<w_args, w_pc, w_ret, w_steps>>

\* the state of the remote client, the workflow and the desktop interface
ioVars == <<retryVars, appVars, upVars, wfVars>>

ftlVars == <<ftl_text, ftl_done, ftl_result>>

folderVars == <<f_args, f_pc, f_files, f_i, f_folder_data, f_stats, f_out>>

nodeVars == <<n_node, n_fields, n_filter, n_pc, n_data, n_stats, n_map, n_out, n_res, n_used>>

mergeVars == <<fs, translation_file, m_args, m_pc, m_map, m_used, m_stats, m_files,
               m_i, m_log, m_runs, m_fs0>>

extractVars == <<catalog_file, cache_file, x_args, x_pc, x_data, x_stats, x_files, x_i,
                 x_hash_cache, x_existing, x_new_cache, x_scanned, x_runs, x_edits,
                 x_hist>>

vars == <<u_args, u_pc, u_files, u_i, u_stats, w_args, w_pc, w_ret, w_steps,
          is_running, stop_requested, progress_callback, stop_check_callback,
          a_pc, a_result, a_outcome, a_stop, a_calls, stop_at,
          r_method, r_pc, r_attempt, r_last_error, r_log, r_slept, r_result,
          ftl_text, ftl_done, ftl_result,
          f_args, f_pc, f_files, f_i, f_folder_data, f_stats, f_out,
          catalog_file, cache_file, x_args, x_pc, x_data, x_stats, x_files, x_i,
          x_hash_cache, x_existing, x_new_cache, x_scanned, x_runs, x_edits, x_hist,
          n_node, n_fields, n_filter, n_pc, n_data, n_stats, n_map, n_out, n_res, n_used,
          fs, translation_file, m_args, m_pc, m_map, m_used, m_stats, m_files,
          m_i, m_log, m_runs, m_fs0>>

-----------------------------------------------------------------------------
(* Bounds *)

MaxTextLen == 4

\* longest `fields` list passed to an operation
MaxFields == 2

\* most records in the sequence document of the first file
MaxDocLen == 2

\* most runs of an operation in one behaviour
MaxRuns == 2

\* most edits of the source tree in one behaviour
MaxEdits == 1

-----------------------------------------------------------------------------
(* Values *)

Str(s)  == [t |-> "str", v |-> s]
Num(n)  == [t |-> "int", v |-> n]
List(l) == [t |-> "list", v |-> l]
Null    == [t |-> "null", v |-> 0]
Dict(d) == [t |-> "dict", v |-> d]

\* a key that a mapping does not have (construction of mappings only)
Absent  == [t |-> "absent", v |-> 0]

\* Python `a == b` on values: values of different types are unequal
ValEq(a, b) == a.t = b.t /\ a.v = b.v

\* Python `a != b`
ValNe(a, b) == ~ValEq(a, b)

\* Python truth value of a value: `if x`, `not x`, `x and ...`
Truthy(x) ==
    CASE x.t = "str"  -> x.v # <<>>
      [] x.t = "list" -> x.v # <<>>
      [] x.t = "dict" -> x.v # <<>>
      [] x.t = "seq"  -> x.v # <<>>
      [] x.t = "int"  -> x.v # 0
      [] OTHER        -> FALSE

-----------------------------------------------------------------------------
(* Characters and str methods *)

Letters    == {"a", "b", "c", "p", "q", "s", "T", "U4E2D"}
Digits     == {"0", "1", "2", "3", "4", "5", "6", "7", "8", "9"}
Whitespace == {" ", "\t", "\n"}

\* c.isalpha() for one character
IsAlphaChar(c) == c \in Letters

\* str.isalpha(): non-empty and every character alphabetic
isalpha(s) == s # <<>> /\ \A i \in 1..Len(s) : IsAlphaChar(s[i])

\* `c in s` for a one-character c
Contains(s, c) == \E i \in 1..Len(s) : s[i] = c

RECURSIVE lstrip(_)
lstrip(s) == IF s # <<>> /\ Head(s) \in Whitespace THEN lstrip(Tail(s)) ELSE s

RECURSIVE rstrip(_)
rstrip(s) ==
    IF s # <<>> /\ s[Len(s)] \in Whitespace
    THEN rstrip(SubSeq(s, 1, Len(s) - 1))
    ELSE s

\* str.strip(): leading and trailing whitespace removed
strip(s) == rstrip(lstrip(s))

\* str.split(sep) for a one-character sep: always at least one segment
RECURSIVE split(_, _)
split(s, sep) ==
    IF ~Contains(s, sep) THEN <<s>>
    ELSE LET i == CHOOSE j \in 1..Len(s) :
                      s[j] = sep /\ \A k \in 1..(j - 1) : s[k] # sep
         IN  <<SubSeq(s, 1, i - 1)>> \o split(SubSeq(s, i + 1, Len(s)), sep)

-----------------------------------------------------------------------------
(* FTL key detection *)

is_ftl_key_space_accepts(text) ==
    IF ~Truthy(text) \/ text.t # "str" THEN FALSE
    ELSE LET s == strip(text.v) IN
         IF Contains(s, " ") THEN TRUE
         ELSE IF ~Contains(s, "-") THEN FALSE
         ELSE LET parts == split(s, "-") IN
              IF Len(parts) < 3 THEN FALSE
              ELSE \A i \in 1..Len(parts) :
                      ~(parts[i] # <<>> /\ ~isalpha(parts[i]))

is_ftl_key_two_parts(text) ==
    IF ~Truthy(text) \/ text.t # "str" THEN FALSE
    ELSE LET s == strip(text.v) IN
         IF Contains(s, " ") THEN FALSE
         ELSE IF ~Contains(s, "-") THEN FALSE
         ELSE LET parts == split(s, "-") IN
              IF Len(parts) < 2 THEN FALSE
              ELSE \A i \in 1..Len(parts) :
                      ~(parts[i] # <<>> /\ ~isalpha(parts[i]))

is_ftl_key(text) ==
    IF ~Truthy(text) \/ text.t # "str" THEN FALSE
    ELSE LET s == strip(text.v) IN
         IF Contains(s, " ") THEN FALSE
         ELSE IF ~Contains(s, "-") THEN FALSE
         ELSE LET parts == split(s, "-") IN
              IF Len(parts) < 3 THEN FALSE
              ELSE \A i \in 1..Len(parts) :
                      ~(parts[i] # <<>> /\ ~isalpha(parts[i]))

-----------------------------------------------------------------------------
(* Mappings (records of a document) *)

\* `f in node`
Has(node, f) == \E i \in 1..Len(node.v) : node.v[i].k = f

\* node.get(f): the value, None (Null) when the key is missing
Get(node, f) ==
    IF Has(node, f)
    THEN node.v[CHOOSE i \in 1..Len(node.v) : node.v[i].k = f].v
    ELSE Null

\* node[f] = x for a key the mapping has, with the mutation that moves the
\* pair to the end of the mapping
SetField_moves_last(node, f, x) ==
    Dict(SelectSeq(node.v, LAMBDA p : p.k # f) \o <<[k |-> f, v |-> x]>>)

\* node[f] = x for a key the mapping has: the pair keeps its place
SetField(node, f, x) ==
    Dict([i \in 1..Len(node.v) |->
            IF node.v[i].k = f THEN [k |-> f, v |-> x] ELSE node.v[i]])

-----------------------------------------------------------------------------
(* str() and f-string formatting of a value *)

DigitGlyph == <<"0", "1", "2", "3", "4", "5", "6", "7", "8", "9">>

\* decimal digits of a natural number
RECURSIVE IntText(_)
IntText(n) ==
    IF n < 10 THEN <<DigitGlyph[n + 1]>>
    ELSE IntText(n \div 10) \o <<DigitGlyph[(n % 10) + 1]>>

\* repr of a list of strings: ['p', 'q']
RECURSIVE ListItemsText(_)
ListItemsText(l) ==
    IF l = <<>> THEN <<>>
    ELSE <<"'">> \o Head(l) \o <<"'">>
         \o (IF Tail(l) = <<>> THEN <<>> ELSE <<",", " ">> \o ListItemsText(Tail(l)))

\* str(x), which is also what f"{x}" inserts
PyStr(x) ==
    CASE x.t = "str"  -> x.v
      [] x.t = "int"  -> IntText(x.v)
      [] x.t = "list" -> <<"[">> \o ListItemsText(x.v) \o <<"]">>
      [] OTHER        -> <<"None">>

-----------------------------------------------------------------------------
(* Key derivation *)

NoKey == [ok |-> FALSE, prefix |-> <<>>]

SomeKey(p) == [ok |-> TRUE, prefix |-> p]

\* the mutation of the derivation that appends the suffix to an id as well
ExtractKeyPrefix_suffix_on_id(node) ==
    LET entity_type == Get(node, "type")
        entity_id   == Get(node, "id")
        parent      == Get(node, "parent")
        sfx         == IF Truthy(Get(node, "suffix"))
                       THEN <<"_">> \o PyStr(Get(node, "suffix")) ELSE <<>>
    IN  IF ValEq(entity_type, Str(<<"entity">>)) \/ Has(node, "id")
        THEN IF Truthy(entity_id) THEN SomeKey(PyStr(entity_id) \o sfx)
             ELSE IF Truthy(parent)
             THEN LET p_str == IF parent.t = "list" /\ Truthy(parent)
                               THEN parent.v[1] ELSE PyStr(parent)
                  IN  SomeKey(<<"Parent_">> \o p_str \o sfx)
             ELSE NoKey
        ELSE NoKey

\* process_node_extract, lines 1034-1047: the selection predicate and the
\* key prefix
ExtractKeyPrefix(node) ==
    LET entity_type == Get(node, "type")
        entity_id   == Get(node, "id")
        parent      == Get(node, "parent")
    IN  IF ValEq(entity_type, Str(<<"entity">>)) \/ Has(node, "id")
        THEN IF Truthy(entity_id) THEN SomeKey(PyStr(entity_id))
             ELSE IF Truthy(parent)
             THEN LET p_str == IF parent.t = "list" /\ Truthy(parent)
                               THEN parent.v[1] ELSE PyStr(parent)
                      base  == <<"Parent_">> \o p_str
                  IN  IF Truthy(Get(node, "suffix"))
                      THEN SomeKey(base \o <<"_">> \o PyStr(Get(node, "suffix")))
                      ELSE SomeKey(base)
             ELSE NoKey
        ELSE NoKey

\* the mutation of merge's derivation that forgets the suffix
MergeKeyPrefix_no_suffix(node) ==
    LET entity_id == Get(node, "id")
        parent    == Get(node, "parent")
    IN  IF Has(node, "id") \/ ValEq(Get(node, "type"), Str(<<"entity">>))
        THEN IF Truthy(entity_id) THEN SomeKey(PyStr(entity_id))
             ELSE IF Truthy(parent)
             THEN LET p_str == IF parent.t = "list" /\ Truthy(parent)
                               THEN parent.v[1] ELSE PyStr(parent)
                  IN  SomeKey(<<"Parent_">> \o p_str)
             ELSE NoKey
        ELSE NoKey

\* process_node_merge, lines 1314-1326: the selection predicate and the key
\* prefix
MergeKeyPrefix(node) ==
    LET entity_id == Get(node, "id")
        parent    == Get(node, "parent")
    IN  IF Has(node, "id") \/ ValEq(Get(node, "type"), Str(<<"entity">>))
        THEN IF Truthy(entity_id) THEN SomeKey(PyStr(entity_id))
             ELSE IF Truthy(parent)
             THEN LET p_str == IF parent.t = "list" /\ Truthy(parent)
                               THEN parent.v[1] ELSE PyStr(parent)
                      base  == <<"Parent_">> \o p_str
                  IN  IF Truthy(Get(node, "suffix"))
                      THEN SomeKey(base \o <<"_">> \o PyStr(Get(node, "suffix")))
                      ELSE SomeKey(base)
             ELSE NoKey
        ELSE NoKey

\* f"{key_prefix}.{field}"
MakeKey(key_prefix, field) == key_prefix \o <<".", field>>

-----------------------------------------------------------------------------
(* Chinese detection *)

\* '一' <= c <= '鿿'
IsCjk(c) == c \in {"U4E2D"}

contains_chinese(text) ==
    IF ~Truthy(text) \/ text.t # "str" THEN FALSE
    ELSE \E i \in 1..Len(text.v) : IsCjk(text.v[i])

-----------------------------------------------------------------------------
(* process_node_extract *)

\* {f: 0 for f in fields}
ZeroByField(fields) == [f \in {fields[i] : i \in 1..Len(fields)} |-> 0]

\* the counters process_node_extract touches, as extract_strings creates them
NodeStats0(fields) ==
    [ftl_skipped |-> 0, translated |-> 0, by_field |-> ZeroByField(fields)]

\* the context text of an entry, lines 1062-1066
MakeContext(node, rel_path) ==
    LET entity_id == Get(node, "id")
        parent    == Get(node, "parent")
    IN  <<"U6587U4EF6:", " ">> \o rel_path \o <<"\n">>
        \o (IF Truthy(entity_id)
            THEN <<"ID:", " ">> \o PyStr(entity_id) \o <<"\n">> ELSE <<>>)
        \o (IF Truthy(parent)
            THEN <<"Parent:", " ">> \o PyStr(parent) \o <<"\n">> ELSE <<>>)

\* stats.get(name, 0) + 1 stored back
Bump(stats, name) == [stats EXCEPT ![name] = @ + 1]

\* stats["by_field"][field] = stats["by_field"].get(field, 0) + 1
BumpField(stats, field) ==
    [stats EXCEPT !.by_field =
        IF field \in DOMAIN @ THEN [@ EXCEPT ![field] = @ + 1]
        ELSE [g \in DOMAIN @ \cup {field} |-> IF g = field THEN 1 ELSE @[g]]]

\* one iteration of the loop over fields, lines 1049-1083, with the mutation
\* that also counts a filtered value in by_field
ExtractField_counts_filtered(acc, node, key_prefix, rel_path, field, filter_ftl) ==
    IF ~(Has(node, field) /\ Get(node, field).t = "str") THEN acc
    ELSE LET original_text == Get(node, field) IN
         IF strip(original_text.v) = <<>> THEN acc
         ELSE IF filter_ftl /\ is_ftl_key(original_text)
         THEN [acc EXCEPT !.stats = BumpField(Bump(@, "ftl_skipped"), field)]
         ELSE LET chinese == contains_chinese(original_text)
                  entry == [key         |-> MakeKey(key_prefix, field),
                            original    |-> original_text.v,
                            context     |-> MakeContext(node, rel_path),
                            translation |-> IF chinese THEN original_text ELSE Absent,
                            stage       |-> IF chinese THEN 1 ELSE 0]
              IN  [data  |-> Append(acc.data, entry),
                   stats |-> BumpField(IF chinese THEN Bump(acc.stats, "translated")
                                       ELSE acc.stats, field)]

\* the same loop body with the mutation that drops an entry whose key is
\* already in extracted_data
ExtractField_dedup(acc, node, key_prefix, rel_path, field, filter_ftl) ==
    IF ~(Has(node, field) /\ Get(node, field).t = "str") THEN acc
    ELSE LET original_text == Get(node, field) IN
         IF strip(original_text.v) = <<>> THEN acc
         ELSE IF filter_ftl /\ is_ftl_key(original_text)
         THEN [acc EXCEPT !.stats = Bump(@, "ftl_skipped")]
         ELSE IF \E i \in 1..Len(acc.data) :
                    acc.data[i].key = MakeKey(key_prefix, field)
         THEN acc
         ELSE LET chinese == contains_chinese(original_text)
                  entry == [key         |-> MakeKey(key_prefix, field),
                            original    |-> original_text.v,
                            context     |-> MakeContext(node, rel_path),
                            translation |-> IF chinese THEN original_text ELSE Absent,
                            stage       |-> IF chinese THEN 1 ELSE 0]
              IN  [data  |-> Append(acc.data, entry),
                   stats |-> BumpField(IF chinese THEN Bump(acc.stats, "translated")
                                       ELSE acc.stats, field)]

\* one iteration of the loop over fields, lines 1049-1083
ExtractField(acc, node, key_prefix, rel_path, field, filter_ftl) ==
    IF ~(Has(node, field) /\ Get(node, field).t = "str") THEN acc
    ELSE LET original_text == Get(node, field) IN
         IF strip(original_text.v) = <<>> THEN acc
         ELSE IF filter_ftl /\ is_ftl_key(original_text)
         THEN [acc EXCEPT !.stats = Bump(@, "ftl_skipped")]
         ELSE LET chinese == contains_chinese(original_text)
                  entry == [key         |-> MakeKey(key_prefix, field),
                            original    |-> original_text.v,
                            context     |-> MakeContext(node, rel_path),
                            translation |-> IF chinese THEN original_text ELSE Absent,
                            stage       |-> IF chinese THEN 1 ELSE 0]
              IN  [data  |-> Append(acc.data, entry),
                   stats |-> BumpField(IF chinese THEN Bump(acc.stats, "translated")
                                       ELSE acc.stats, field)]

RECURSIVE ExtractFieldsFrom(_, _, _, _, _, _, _)
ExtractFieldsFrom(acc, node, key_prefix, rel_path, fields, filter_ftl, i) ==
    IF i > Len(fields) THEN acc
    ELSE ExtractFieldsFrom(
             ExtractField(acc, node, key_prefix, rel_path, fields[i], filter_ftl),
             node, key_prefix, rel_path, fields, filter_ftl, i + 1)

\* process_node_extract: extracted_data and stats after the call
process_node_extract(node, extracted_data, rel_path, fields, stats, filter_ftl) ==
    LET acc == [data |-> extracted_data, stats |-> stats] IN
    IF node.t # "dict" THEN acc
    ELSE LET kp == ExtractKeyPrefix(node) IN
         IF ~kp.ok THEN acc
         ELSE ExtractFieldsFrom(acc, node, kp.prefix, rel_path, fields, filter_ftl, 1)

-----------------------------------------------------------------------------
(* process_node_merge *)

\* one iteration of the loop over fields, lines 1328-1339, with the mutation
\* that overwrites without comparing with the current value
MergeField_always_writes(acc, key_prefix, translation_map, field) ==
    IF ~Has(acc.node, field) THEN acc
    ELSE LET key == MakeKey(key_prefix, field) IN
         IF key \notin DOMAIN translation_map THEN acc
         ELSE LET new_text == translation_map[key] IN
              IF Truthy(new_text)
              THEN [acc EXCEPT !.node = SetField(@, field, new_text),
                               !.used = @ \cup {key},
                               !.modified = TRUE,
                               !.applied = @ + 1]
              ELSE [acc EXCEPT !.used = @ \cup {key}, !.skipped = @ + 1]

\* the same loop body with the mutation that marks a key used only when its
\* translation is applied
MergeField_skip_not_used(acc, key_prefix, translation_map, field) ==
    IF ~Has(acc.node, field) THEN acc
    ELSE LET key == MakeKey(key_prefix, field) IN
         IF key \notin DOMAIN translation_map THEN acc
         ELSE LET new_text == translation_map[key] IN
              IF Truthy(new_text) /\ ValNe(new_text, Get(acc.node, field))
              THEN [acc EXCEPT !.node = SetField(@, field, new_text),
                               !.used = @ \cup {key},
                               !.modified = TRUE,
                               !.applied = @ + 1]
              ELSE [acc EXCEPT !.skipped = @ + 1]

\* the same loop body with the mutation that leaves alone a value that is not
\* a string with text in it
MergeField_strings_only(acc, key_prefix, translation_map, field) ==
    IF ~Has(acc.node, field) THEN acc
    ELSE IF ~(Get(acc.node, field).t = "str" /\ strip(Get(acc.node, field).v) # <<>>)
    THEN acc
    ELSE LET key == MakeKey(key_prefix, field) IN
         IF key \notin DOMAIN translation_map THEN acc
         ELSE LET new_text == translation_map[key] IN
              IF Truthy(new_text) /\ ValNe(new_text, Get(acc.node, field))
              THEN [acc EXCEPT !.node = SetField(@, field, new_text),
                               !.used = @ \cup {key},
                               !.modified = TRUE,
                               !.applied = @ + 1]
              ELSE [acc EXCEPT !.used = @ \cup {key}, !.skipped = @ + 1]

\* one iteration of the loop over fields, lines 1328-1339
MergeField(acc, key_prefix, translation_map, field) ==
    IF ~Has(acc.node, field) THEN acc
    ELSE LET key == MakeKey(key_prefix, field) IN
         IF key \notin DOMAIN translation_map THEN acc
         ELSE LET new_text == translation_map[key] IN
              IF Truthy(new_text) /\ ValNe(new_text, Get(acc.node, field))
              THEN [acc EXCEPT !.node = SetField(@, field, new_text),
                               !.used = @ \cup {key},
                               !.modified = TRUE,
                               !.applied = @ + 1]
              ELSE [acc EXCEPT !.used = @ \cup {key}, !.skipped = @ + 1]

RECURSIVE MergeFieldsFrom(_, _, _, _, _)
MergeFieldsFrom(acc, key_prefix, translation_map, fields, i) ==
    IF i > Len(fields) THEN acc
    ELSE MergeFieldsFrom(MergeField(acc, key_prefix, translation_map, fields[i]),
                         key_prefix, translation_map, fields, i + 1)

\* process_node_merge: the node after the call, the result dictionary and
\* used_keys after the call
process_node_merge(node, translation_map, fields, used_keys) ==
    LET acc == [node |-> node, used |-> used_keys,
                modified |-> FALSE, applied |-> 0, skipped |-> 0] IN
    IF node.t # "dict" THEN acc
    ELSE LET kp == MergeKeyPrefix(node) IN
         IF ~kp.ok THEN acc
         ELSE MergeFieldsFrom(acc, kp.prefix, translation_map, fields, 1)

-----------------------------------------------------------------------------
(* Paths and the file system *)

\* A path is a text whose glyphs are directory names, "/" and, for a file,
\* its stem followed by its extension.
SourceRoot == <<"r">>

\* os.path.join(dir, rel) for a non-empty dir
Join(dir, rel) == dir \o <<"/">> \o rel

\* the path is below the directory
Under(path, dir) ==
    /\ Len(path) > Len(dir) + 1
    /\ SubSeq(path, 1, Len(dir)) = dir
    /\ path[Len(dir) + 1] = "/"

\* os.path.relpath(path, dir) for a path below dir
RelPath(path, dir) == SubSeq(path, Len(dir) + 2, Len(path))

\* file.endswith('.yml') or file.endswith('.yaml')
IsYaml(path) == path # <<>> /\ path[Len(path)] \in {".yml", ".yaml"}

FileA == <<"a", ".yml">>
FileB == <<"d", "/", "b", ".yaml">>
FileE == <<"e", ".yml">>
FileF == <<"d", "/", "e", "/", "f", ".yml">>
FileG == <<"root", "/", "g", ".yml">>

\* every path a file can have, in the order os.walk visits a tree: the files
\* of a directory, then its subdirectories one after the other
WalkOrder ==
    <<Join(SourceRoot, FileA),
      Join(SourceRoot, FileE),
      Join(SourceRoot, FileB),
      Join(SourceRoot, FileF),
      Join(SourceRoot, FileG),
      Join(Join(SourceRoot, <<"out">>), FileA),
      Join(Join(SourceRoot, <<"out">>), FileB),
      Join(<<"o">>, FileA),
      Join(<<"o">>, FileB)>>

\* the list yaml_files: os.walk(dir) filtered by extension
Walk(files, dir) ==
    SelectSeq(WalkOrder, LAMBDA p : p \in DOMAIN files /\ Under(p, dir) /\ IsYaml(p))

\* a document that cannot be parsed: YAMLProcessor.load raises
Bad == [t |-> "bad", v |-> 0]

\* a document that is a sequence of items
Items(s) == [t |-> "seq", v |-> s]

\* open(path, 'w') with the mutation that leaves an existing file as it is
WriteFile_keeps_existing(files, path, data) ==
    [p \in DOMAIN files \cup {path} |-> IF p \in DOMAIN files THEN files[p] ELSE data]

\* open(path, 'w') and dump: the file is created or replaced
WriteFile(files, path, data) ==
    [p \in DOMAIN files \cup {path} |-> IF p = path THEN data ELSE files[p]]

-----------------------------------------------------------------------------
(* merge_translations *)

\* line 1289 with the mutation that writes next to the source document
OutPath_in_place(output_dir, rel_path) == Join(SourceRoot, rel_path)

\* out_path = os.path.join(output_dir, rel_path), line 1289
OutPath(output_dir, rel_path) == Join(output_dir, rel_path)

MergeStats0 ==
    [files_modified |-> 0, strings_applied |-> 0, strings_skipped |-> 0,
     translations_unused |-> 0]

\* the translation file: missing, not JSON, a JSON list of items or a JSON
\* object of key -> translation (its members in the order of the file)
NoFile == [kind |-> "missing", v |-> <<>>]

\* lines 1241-1245 with the mutation that lets the first item of a key win
LoadList_first_wins(items, map) ==
    LET keys == {items[i].key : i \in {j \in 1..Len(items) :
                     items[j].key # <<>> /\ items[j].translation # <<>>}}
    IN  [k \in DOMAIN map \cup keys |->
            IF k \in keys
            THEN Str(items[CHOOSE i \in 1..Len(items) :
                        /\ items[i].key = k /\ items[i].translation # <<>>
                        /\ \A j \in 1..(i - 1) :
                              ~(items[j].key = k /\ items[j].translation # <<>>)
                     ].translation)
            ELSE map[k]]

\* lines 1241-1245: every item with a key and a translation is stored under
\* its key, a later item replacing an earlier one
RECURSIVE LoadList(_, _)
LoadList(items, map) ==
    IF items = <<>> THEN map
    ELSE LET item == Head(items)
             next == IF item.key # <<>> /\ item.translation # <<>>
                     THEN [k \in DOMAIN map \cup {item.key} |->
                              IF k = item.key THEN Str(item.translation) ELSE map[k]]
                     ELSE map
         IN  LoadList(Tail(items), next)

\* line 1247: the members of a JSON object, whatever their values
LoadDict(members) ==
    [k \in {members[i].key : i \in 1..Len(members)} |->
        Str(members[CHOOSE i \in 1..Len(members) :
                       /\ members[i].key = k
                       /\ \A j \in (i + 1)..Len(members) : members[j].key # k
                   ].translation)]

\* lines 1239-1247
LoadTranslationMap(raw_data) ==
    IF raw_data.kind = "list" THEN LoadList(raw_data.v, <<>>)
    ELSE IF raw_data.kind = "dict" THEN LoadDict(raw_data.v)
    ELSE <<>>

\* lines 1274-1286, one document: the nodes in order, the results added up
RECURSIVE MergeNodesFrom(_, _, _, _)
MergeNodesFrom(acc, translation_map, fields, i) ==
    IF i > Len(acc.data) THEN acc
    ELSE LET r == process_node_merge(acc.data[i], translation_map, fields, acc.used)
         IN  MergeNodesFrom([data     |-> [acc.data EXCEPT ![i] = r.node],
                             used     |-> r.used,
                             modified |-> acc.modified \/ r.modified,
                             applied  |-> acc.applied + r.applied,
                             skipped  |-> acc.skipped + r.skipped],
                            translation_map, fields, i + 1)

\* lines 1272-1286: the loaded document after the merge, with the counts
MergeDocument(data, translation_map, fields, used_keys) ==
    IF data.t = "seq"
    THEN LET r == MergeNodesFrom([data |-> data.v, used |-> used_keys,
                                  modified |-> FALSE, applied |-> 0, skipped |-> 0],
                                 translation_map, fields, 1)
         IN  [r EXCEPT !.data = Items(@)]
    ELSE IF data.t = "dict"
    THEN LET r == process_node_merge(data, translation_map, fields, used_keys)
         IN  [data |-> r.node, used |-> r.used, modified |-> r.modified,
              applied |-> r.applied, skipped |-> r.skipped]
    ELSE [data |-> data, used |-> used_keys,
          modified |-> FALSE, applied |-> 0, skipped |-> 0]

-----------------------------------------------------------------------------
(* extract_strings *)

ExtractStats0(fields) ==
    [files_scanned |-> 0, files_with_text |-> 0, files_skipped |-> 0,
     ftl_skipped |-> 0, translated |-> 0, total_strings |-> 0,
     by_field |-> ZeroByField(fields)]

\* a JSON file that does not exist
NoCatalog == [kind |-> "missing", v |-> <<>>]

\* compute_file_hash: the digest stands for the bytes it was computed from
compute_file_hash(content) == [md5 |-> content]

\* existing_data[entry.get('key', '')] = entry for the entries in order,
\* lines 923-924: a dict keeps the place of a key's first insertion
RECURSIVE IndexByKey(_, _)
IndexByKey(entries, existing) ==
    IF entries = <<>> THEN existing
    ELSE LET entry == Head(entries)
             next  == IF \E i \in 1..Len(existing) : existing[i].key = entry.key
                      THEN [i \in 1..Len(existing) |->
                               IF existing[i].key = entry.key THEN entry
                               ELSE existing[i]]
                      ELSE Append(existing, entry)
         IN  IndexByKey(Tail(entries), next)

\* lines 920-927: the entries of the catalog file, when there is one
LoadExisting(catalog) ==
    IF catalog.kind = "list" THEN IndexByKey(catalog.v, <<>>) ELSE <<>>

\* lines 963-967, one document: the nodes in order
RECURSIVE ExtractNodesFrom(_, _, _, _, _, _)
ExtractNodesFrom(acc, nodes, rel_path, fields, filter_ftl, i) ==
    IF i > Len(nodes) THEN acc
    ELSE ExtractNodesFrom(
             process_node_extract(nodes[i], acc.data, rel_path, fields,
                                  acc.stats, filter_ftl),
             nodes, rel_path, fields, filter_ftl, i + 1)

ExtractDocument(data, extracted_data, rel_path, fields, stats, filter_ftl) ==
    LET acc == [data |-> extracted_data, stats |-> stats] IN
    IF data.t = "seq"
    THEN ExtractNodesFrom(acc, data.v, rel_path, fields, filter_ftl, 1)
    ELSE IF data.t = "dict"
    THEN process_node_extract(data, extracted_data, rel_path, fields, stats, filter_ftl)
    ELSE acc

\* context.split('\n')[0]
FirstLine(text) == Head(split(text, "\n"))

\* text.replace(g, '') for a one-glyph g
Remove(text, g) == SelectSeq(text, LAMBDA c : c # g)

\* lines 984-988: the file an entry came from, read back from its context
ContextFile(entry) ==
    IF Contains(entry.context, "U6587U4EF6:")
    THEN [ok |-> TRUE, path |-> strip(Remove(FirstLine(entry.context), "U6587U4EF6:"))]
    ELSE [ok |-> FALSE, path |-> <<>>]

\* lines 976-990 with the mutation that leaves out the test of line 989
CarryForward_any_file(existing, extracted_data, new_hash_cache) ==
    LET new_keys == {extracted_data[i].key : i \in 1..Len(extracted_data)} IN
    SelectSeq(existing, LAMBDA entry : entry.key \notin new_keys)

\* lines 976-990: the entries of the previous catalog that are kept
CarryForward(existing, extracted_data, new_hash_cache) ==
    LET new_keys == {extracted_data[i].key : i \in 1..Len(extracted_data)} IN
    SelectSeq(existing,
              LAMBDA entry : /\ entry.key \notin new_keys
                             /\ ContextFile(entry).ok
                             /\ ContextFile(entry).path \in DOMAIN new_hash_cache)

\* lines 1012-1017: the catalog is written by every run, the hash cache by
\* an incremental run only, after the catalog
FinishWrites(incremental) ==
    IF incremental THEN <<"catalog", "cache">> ELSE <<"catalog">>

\* lines 1016-1017 with the mutation that saves the cache in every run
SavedCache_every_run(incremental, old_cache, new_hash_cache) == new_hash_cache

\* lines 1016-1017: the cache file after the run
SavedCache(incremental, old_cache, new_hash_cache) ==
    IF incremental THEN new_hash_cache ELSE old_cache

\* before the first run nothing was written and nothing was edited
Hist0 ==
    [catalog0 |-> NoCatalog, cache0 |-> <<>>, inc0 |-> FALSE, edited0 |-> FALSE,
     edited |-> FALSE, writes |-> <<>>]

-----------------------------------------------------------------------------
(* extract_strings_by_folder *)

FolderStats0(fields) ==
    [files_scanned |-> 0, files_with_text |-> 0, ftl_skipped |-> 0,
     total_strings |-> 0, folder_count |-> 0, by_field |-> ZeroByField(fields)]

\* the place of the last "/" of a path, 0 when there is none
LastSlash(path) ==
    LET S == {i \in 1..Len(path) : path[i] = "/"} IN
    IF S = {} THEN 0 ELSE CHOOSE i \in S : \A j \in S : j <= i

\* os.path.dirname and os.path.basename
dirname(path) ==
    IF LastSlash(path) = 0 THEN <<>> ELSE SubSeq(path, 1, LastSlash(path) - 1)

basename(path) == SubSeq(path, LastSlash(path) + 1, Len(path))

\* lines 1137-1140 with the mutation that groups by the innermost directory
GroupKey_innermost(rel_path) ==
    IF dirname(rel_path) # <<>> THEN basename(dirname(rel_path)) ELSE <<"root">>

\* lines 1137-1140: the group of a file
GroupKey(rel_path) ==
    IF dirname(rel_path) # <<>> THEN dirname(rel_path) ELSE <<"root">>

\* lines 1180-1193: the catalog file of a group
GroupFile(output_dir, group_name) ==
    IF group_name = <<"root">> THEN Join(output_dir, <<"root", ".json">>)
    ELSE IF dirname(group_name) # <<>>
    THEN Join(Join(output_dir, dirname(group_name)),
              basename(group_name) \o <<".json">>)
    ELSE Join(output_dir, basename(group_name) \o <<".json">>)

\* line 1159 with the mutation that assigns instead of extending
ExtendGroup_replaces(folder_data, group_key, file_entries) ==
    IF \E g \in 1..Len(folder_data) : folder_data[g].group = group_key
    THEN [g \in 1..Len(folder_data) |->
             IF folder_data[g].group = group_key
             THEN [folder_data[g] EXCEPT !.entries = file_entries]
             ELSE folder_data[g]]
    ELSE Append(folder_data, [group |-> group_key, entries |-> file_entries])

\* folder_data[group_key].extend(file_entries), line 1159
ExtendGroup(folder_data, group_key, file_entries) ==
    IF \E g \in 1..Len(folder_data) : folder_data[g].group = group_key
    THEN [g \in 1..Len(folder_data) |->
             IF folder_data[g].group = group_key
             THEN [folder_data[g] EXCEPT !.entries = @ \o file_entries]
             ELSE folder_data[g]]
    ELSE Append(folder_data, [group |-> group_key, entries |-> file_entries])

\* lines 1163-1166: the counters of one file added to the run's
AddFileStats(stats, file_stats) ==
    [stats EXCEPT
        !.ftl_skipped = @ + file_stats.ftl_skipped,
        !.by_field = [f \in DOMAIN @ \cup DOMAIN file_stats.by_field |->
                         (IF f \in DOMAIN @ THEN @[f] ELSE 0)
                         + (IF f \in DOMAIN file_stats.by_field
                            THEN file_stats.by_field[f] ELSE 0)]]

\* lines 1175-1200: the groups written one after the other
RECURSIVE WriteGroups(_, _, _, _)
WriteGroups(out, stats, output_dir, folder_data) ==
    IF folder_data = <<>> THEN [out |-> out, stats |-> stats]
    ELSE LET g == Head(folder_data) IN
         IF g.entries = <<>>
         THEN WriteGroups(out, stats, output_dir, Tail(folder_data))
         ELSE WriteGroups(WriteFile(out, GroupFile(output_dir, g.group), g.entries),
                          [stats EXCEPT !.total_strings = @ + Len(g.entries),
                                        !.folder_count = @ + 1],
                          output_dir, Tail(folder_data))

-----------------------------------------------------------------------------
(* The state before an operation has been given its arguments *)

FolderIdle ==
    /\ f_args = [output_dir |-> <<>>, fields |-> <<>>, filter_ftl |-> FALSE]
    /\ f_pc = "idle"
    /\ f_files = <<>>
    /\ f_i = 0
    /\ f_folder_data = <<>>
    /\ f_stats = FolderStats0(<<>>)
    /\ f_out = <<>>

NodeIdle ==
    /\ n_node = Null
    /\ n_fields = <<>>
    /\ n_filter = FALSE
    /\ n_pc = "idle"
    /\ n_data = <<>>
    /\ n_stats = NodeStats0(<<>>)
    /\ n_map = <<>>
    /\ n_out = Null
    /\ n_res = [modified |-> FALSE, applied |-> 0, skipped |-> 0]
    /\ n_used = {}

ExtractIdle ==
    /\ catalog_file = NoCatalog
    /\ cache_file = <<>>
    /\ x_args = [fields |-> <<>>, filter_ftl |-> FALSE, incremental |-> FALSE]
    /\ x_pc = "idle"
    /\ x_data = <<>>
    /\ x_stats = ExtractStats0(<<>>)
    /\ x_files = <<>>
    /\ x_i = 0
    /\ x_hash_cache = <<>>
    /\ x_existing = <<>>
    /\ x_new_cache = <<>>
    /\ x_scanned = <<>>
    /\ x_runs = 0
    /\ x_edits = 0
    /\ x_hist = Hist0

MergeIdle ==
    /\ fs = <<>>
    /\ translation_file = NoFile
    /\ m_args = [output_dir |-> SourceRoot, fields |-> <<>>]
    /\ m_pc = "idle"
    /\ m_map = <<>>
    /\ m_used = {}
    /\ m_stats = MergeStats0
    /\ m_files = <<>>
    /\ m_i = 0
    /\ m_log = <<>>
    /\ m_runs = 0
    /\ m_fs0 = <<>>

FtlIdle ==
    /\ ftl_text = <<>>
    /\ ftl_done = FALSE
    /\ ftl_result = FALSE

MaxCalls == 2

\* the threads run_in_thread can have created
Workers == 1..MaxCalls

\* the positions of a worker in _run before the call of func
BeforeCall == {"start", "reset", "set_callbacks"}

InFlight(w) == a_pc[w] \notin {"none", "ended"}

\* should_stop(), lines 223-227, with the callback of line 1929
should_stop == stop_check_callback /\ stop_requested

\* no stop request has been accepted during an operation's loop
NoStop == [set |-> FALSE, x |-> 0, f |-> 0, m |-> 0, u |-> 0]

\* the attributes set by App.__init__ and the module's globals, before any
\* call
AppIdle ==
    /\ is_running = FALSE
    /\ stop_requested = FALSE
    /\ progress_callback = FALSE
    /\ stop_check_callback = FALSE
    /\ a_pc = [w \in Workers |-> "none"]
    /\ a_result = [w \in Workers |-> "none"]
    /\ a_outcome = [w \in Workers |-> "none"]
    /\ a_stop = [w \in Workers |-> "no"]
    /\ a_calls = 0
    /\ stop_at = NoStop

\* upload_folder has not been called
UploadStats0 == [uploaded |-> 0, failed |-> 0, skipped |-> 0]

UploadIdle ==
    /\ u_args = [kind |-> "upload_folder"]
    /\ u_pc = "idle"
    /\ u_files = <<>>
    /\ u_i = 0
    /\ u_stats = UploadStats0

\* run_full_workflow has not been called
WorkflowIdle ==
    /\ w_args = [by_folder |-> FALSE, credentials |-> FALSE]
    /\ w_pc = "idle"
    /\ w_ret = "none"
    /\ w_steps = <<>>

RetryIdle ==
    /\ r_method = "GET"
    /\ r_pc = "idle"
    /\ r_attempt = 0
    /\ r_last_error = "None"
    /\ r_log = <<>>
    /\ r_slept = <<>>
    /\ r_result = [kind |-> "none", status |-> 0]

IoIdle ==
    /\ RetryIdle
    /\ AppIdle
    /\ UploadIdle
    /\ WorkflowIdle

-----------------------------------------------------------------------------
(* SpecFtl: is_ftl_key applied to every short text *)

FtlGlyphs == {"a", "T", "7", "-", " ", "\t"}

RECURSIVE TextsUpTo(_, _)
TextsUpTo(G, n) ==
    IF n = 0 THEN {<<>>}
    ELSE LET shorter == TextsUpTo(G, n - 1) IN
         shorter \cup {Append(s, g) : s \in {x \in shorter : Len(x) = n - 1}, g \in G}

FtlTexts == TextsUpTo(FtlGlyphs, MaxTextLen)

FtlInit ==
    /\ ftl_text \in FtlTexts
    /\ ftl_done = FALSE
    /\ ftl_result = FALSE
    /\ IoIdle
    /\ NodeIdle
    /\ FolderIdle
    /\ MergeIdle
    /\ ExtractIdle

CallIsFtlKey ==
    /\ ~ftl_done
    /\ ftl_result' = is_ftl_key(Str(ftl_text))
    /\ ftl_done' = TRUE
    /\ UNCHANGED ftl_text
    /\ UNCHANGED <<ioVars, nodeVars, mergeVars, extractVars, folderVars>>

FtlNext == CallIsFtlKey

SpecFtl == FtlInit /\ [][FtlNext]_vars

-----------------------------------------------------------------------------
(* SpecNode: process_node_extract, then process_node_merge, on one record *)

FieldNames == {"name", "description"}

\* the `fields` lists: any order, repetitions allowed, the empty list too
RECURSIVE FieldListsUpTo(_)
FieldListsUpTo(n) ==
    IF n = 0 THEN {<<>>}
    ELSE LET shorter == FieldListsUpTo(n - 1) IN
         shorter \cup {Append(s, f) : s \in {x \in shorter : Len(x) = n - 1},
                                      f \in FieldNames}

FieldLists == FieldListsUpTo(MaxFields)

\* the `fields` lists of the runs over a tree: the lists of distinct names,
\* one list that names a field twice, and one that names the field the key
\* is derived from
RunFieldLists ==
    {l \in FieldLists : \A i, j \in 1..Len(l) : l[i] = l[j] => i = j}
    \cup {<<"name", "name">>, <<"id", "name">>}

Pair(k, x) == IF x = Absent THEN <<>> ELSE <<[k |-> k, v |-> x]>>

MkNode(type, id, parent, suffix, name, description) ==
    Dict(Pair("type", type) \o Pair("id", id) \o Pair("parent", parent)
         \o Pair("suffix", suffix) \o Pair("name", name)
         \o Pair("description", description))

TypeValues   == {Absent, Str(<<"entity">>), Str(<<"a">>)}
IdValues     == {Absent, Null, Str(<<>>), Str(<<"c">>)}
ParentValues == {Absent, Str(<<>>), Str(<<"p">>), List(<<>>),
                 List(<<<<"p">>, <<"q">>>>), Num(5)}
SuffixValues == {Absent, Str(<<>>), Str(<<"s">>)}
NameValues   == {Absent, Str(<<>>), Str(<<" ">>), Str(<<"a", " ", "b">>),
                 Str(<<"a", "-", "b", "-", "c">>), Str(<<"U4E2D">>), Num(5)}
DescValues   == {Absent, Str(<<"a", "-", "-">>)}

\* the records of SpecNode, and two document items that are not mappings
NodeValues ==
    {MkNode(ty, id, pa, su, na, de) :
        ty \in TypeValues, id \in IdValues, pa \in ParentValues,
        su \in SuffixValues, na \in NameValues, de \in DescValues}
    \cup {Str(<<"a">>), List(<<<<"a">>>>)}

NodePath == <<"a.yml">>

\* the translation every extracted string is given in SpecNode
NodeTranslation == Str(<<"T">>)

NodeInit ==
    /\ n_node \in NodeValues
    /\ n_fields \in FieldLists
    /\ n_filter \in BOOLEAN
    /\ n_pc = "start"
    /\ n_data = <<>>
    /\ n_stats = NodeStats0(n_fields)
    /\ n_map = <<>>
    /\ n_out = Null
    /\ n_res = [modified |-> FALSE, applied |-> 0, skipped |-> 0]
    /\ n_used = {}
    /\ FtlIdle
    /\ IoIdle
    /\ FolderIdle
    /\ MergeIdle
    /\ ExtractIdle

\* process_node_extract(node, [], rel_path, fields, stats, filter_ftl)
NodeExtract ==
    /\ n_pc = "start"
    /\ LET r == process_node_extract(n_node, <<>>, NodePath, n_fields,
                                     n_stats, n_filter)
       IN  /\ n_data' = r.data
           /\ n_stats' = r.stats
    /\ n_pc' = "extracted"
    /\ UNCHANGED <<n_node, n_fields, n_filter, n_map, n_out, n_res, n_used>>
    /\ UNCHANGED <<ioVars, ftlVars, folderVars, mergeVars, extractVars>>

\* the catalog comes back with a translation for every entry and is loaded
\* as merge_translations loads a list, lines 1240-1245
NodeTranslate ==
    /\ n_pc = "extracted"
    /\ n_map' = [k \in {n_data[i].key : i \in 1..Len(n_data)} |-> NodeTranslation]
    /\ n_pc' = "translated"
    /\ UNCHANGED <<n_node, n_fields, n_filter, n_data, n_stats, n_out, n_res, n_used>>
    /\ UNCHANGED <<ioVars, ftlVars, folderVars, mergeVars, extractVars>>

\* process_node_merge(node, translation_map, fields, used_keys)
NodeMerge ==
    /\ n_pc = "translated"
    /\ LET r == process_node_merge(n_node, n_map, n_fields, {})
       IN  /\ n_out' = r.node
           /\ n_res' = [modified |-> r.modified, applied |-> r.applied,
                        skipped |-> r.skipped]
           /\ n_used' = r.used
    /\ n_pc' = "merged"
    /\ UNCHANGED <<n_node, n_fields, n_filter, n_data, n_stats, n_map>>
    /\ UNCHANGED <<ioVars, ftlVars, folderVars, mergeVars, extractVars>>

NodeNext == NodeExtract \/ NodeTranslate \/ NodeMerge

SpecNode == NodeInit /\ [][NodeNext]_vars

-----------------------------------------------------------------------------
(* SpecMerge: runs of merge_translations over a source tree *)

RecChair  == MkNode(Absent, Str(<<"c">>), Absent, Absent,
                    Str(<<"a", " ", "b">>), Str(<<"a", "-", "-">>))
RecChair2 == MkNode(Absent, Str(<<"c">>), Absent, Absent, Str(<<"T">>), Absent)
RecParent == MkNode(Str(<<"entity">>), Absent, List(<<<<"p">>, <<"q">>>>),
                    Str(<<"s">>), Str(<<"a", " ", "b">>), Absent)
RecNoKey  == MkNode(Str(<<"entity">>), Absent, Absent, Absent,
                    Str(<<"a", " ", "b">>), Absent)
RecOdd    == Dict(<<[k |-> "name", v |-> Num(5)],
                    [k |-> "id", v |-> Str(<<"c">>)],
                    [k |-> "note", v |-> Str(<<"a", " ", "b">>)]>>)

\* an item of a document that is not a mapping
ItemScalar == Str(<<"a">>)

TreeRecords == {RecChair, RecChair2, RecParent, RecNoKey}

RECURSIVE ItemSeqsUpTo(_)
ItemSeqsUpTo(n) ==
    IF n = 0 THEN {<<>>}
    ELSE LET shorter == ItemSeqsUpTo(n - 1) IN
         shorter \cup {Append(s, r) : s \in {x \in shorter : Len(x) = n - 1},
                                      r \in TreeRecords}

\* the contents of the first file: unparsable, a single mapping, a sequence
\* with an item that is not a mapping, a sequence with a record whose name
\* is not a string, or a sequence (possibly empty) of records
DocsA ==
    {Bad, RecChair, Items(<<ItemScalar, RecChair>>),
     Items(<<RecOdd>>), Items(<<RecChair, RecOdd>>)}
    \cup {Items(s) : s \in ItemSeqsUpTo(MaxDocLen)}

\* the contents of the second file, when there is one
DocsB == {Bad, RecChair, Items(<<RecChair2>>), Items(<<RecParent>>)}

Trees ==
    {[p \in {Join(SourceRoot, FileA)} |-> a] : a \in DocsA}
    \cup {[p \in {Join(SourceRoot, FileA), Join(SourceRoot, FileB)} |->
              IF p = Join(SourceRoot, FileA) THEN a ELSE b] :
          a \in DocsA, b \in DocsB}

KeyChairName   == <<"c", ".", "name">>
KeyChairDesc   == <<"c", ".", "description">>
KeyParentName  == <<"Parent_", "p", "_", "s", ".", "name">>
KeyGhost       == <<"g", ".", "name">>
KeyChairId     == <<"c", ".", "id">>
KeyRenamedName == <<"T", ".", "name">>

Item(k, tr) == [key |-> k, translation |-> tr]

TransFiles ==
    { NoFile,
      [kind |-> "invalid", v |-> <<>>],
      [kind |-> "list", v |-> <<Item(KeyChairName, <<"T">>)>>],
      [kind |-> "list", v |-> <<Item(KeyChairName, <<"T">>), Item(KeyGhost, <<"T">>),
                                Item(KeyChairDesc, <<>>)>>],
      [kind |-> "list", v |-> <<Item(KeyChairName, <<"a", " ", "b">>),
                                Item(KeyChairDesc, <<"T">>),
                                Item(KeyParentName, <<"T">>)>>],
      [kind |-> "list", v |-> <<Item(KeyChairName, <<"U4E2D">>),
                                Item(KeyChairName, <<"T">>),
                                Item(KeyChairName, <<>>)>>],
      [kind |-> "list", v |-> <<Item(KeyChairId, <<"T">>),
                                Item(KeyRenamedName, <<"q">>)>>],
      [kind |-> "dict", v |-> <<Item(KeyChairName, <<>>),
                                Item(KeyParentName, <<"T">>)>>] }

\* the output directories: the source root itself, a directory outside it,
\* a directory inside it
OutDirs == {SourceRoot, <<"o">>, Join(SourceRoot, <<"out">>)}

MergeInit ==
    /\ fs \in Trees
    /\ translation_file \in TransFiles
    /\ m_args \in [output_dir : OutDirs, fields : RunFieldLists]
    /\ m_pc = "idle"
    /\ m_map = <<>>
    /\ m_used = {}
    /\ m_stats = MergeStats0
    /\ m_files = <<>>
    /\ m_i = 0
    /\ m_log = <<>>
    /\ m_runs = 0
    /\ m_fs0 = fs
    /\ FtlIdle
    /\ IoIdle
    /\ FolderIdle
    /\ NodeIdle
    /\ ExtractIdle

\* merge_translations up to the loop over the files, lines 1219-1261
MergeStart ==
    /\ m_pc \in {"idle", "done", "raised"}
    /\ m_runs < MaxRuns
    /\ m_runs' = m_runs + 1
    /\ m_stats' = MergeStats0
    /\ m_used' = {}
    /\ m_log' = <<>>
    /\ m_i' = 1
    /\ m_fs0' = fs
    /\ IF translation_file.kind = "missing"
       THEN m_pc' = "done" /\ m_map' = <<>> /\ m_files' = <<>>
       ELSE IF translation_file.kind = "invalid"
       THEN m_pc' = "raised" /\ m_map' = <<>> /\ m_files' = <<>>
       ELSE /\ m_pc' = "loop"
            /\ m_map' = LoadTranslationMap(translation_file)
            /\ m_files' = Walk(fs, SourceRoot)
    /\ UNCHANGED <<fs, translation_file, m_args>>
    /\ UNCHANGED <<ioVars, ftlVars, folderVars, nodeVars, extractVars>>

\* one iteration of the loop over the files, lines 1263-1295
MergeFile ==
    /\ m_pc = "loop"
    /\ m_i <= Len(m_files)
    /\ LET file_path == m_files[m_i]
           rel_path  == RelPath(file_path, SourceRoot)
           data      == fs[file_path]
           out_path  == OutPath(m_args.output_dir, rel_path)
       IN  IF data.t = "bad" \/ ~Truthy(data)
           THEN /\ m_log' = Append(m_log, [src |-> file_path, loaded |-> data,
                                           data |-> data, wrote |-> FALSE,
                                           dst |-> out_path,
                                           warned |-> data.t = "bad"])
                /\ UNCHANGED <<fs, m_used, m_stats>>
           ELSE LET r == MergeDocument(data, m_map, m_args.fields, m_used) IN
                /\ m_used' = r.used
                /\ m_stats' =
                      [m_stats EXCEPT
                          !.strings_applied = @ + r.applied,
                          !.strings_skipped = @ + r.skipped,
                          !.files_modified = IF r.modified THEN @ + 1 ELSE @]
                /\ fs' = IF r.modified THEN WriteFile(fs, out_path, r.data) ELSE fs
                /\ m_log' = Append(m_log, [src |-> file_path, loaded |-> data,
                                           data |-> r.data, wrote |-> r.modified,
                                           dst |-> out_path, warned |-> FALSE])
    /\ m_i' = m_i + 1
    /\ UNCHANGED <<translation_file, m_args, m_pc, m_map, m_files, m_runs, m_fs0>>
    /\ UNCHANGED <<ioVars, ftlVars, folderVars, nodeVars, extractVars>>

\* after the loop, lines 1297-1304
MergeFinish ==
    /\ m_pc = "loop"
    /\ m_i > Len(m_files)
    /\ m_stats' = [m_stats EXCEPT
                      !.translations_unused =
                          Cardinality(DOMAIN m_map) - Cardinality(m_used)]
    /\ m_pc' = "done"
    /\ UNCHANGED <<fs, translation_file, m_args, m_map, m_used, m_files, m_i,
                   m_log, m_runs, m_fs0>>
    /\ UNCHANGED <<ioVars, ftlVars, folderVars, nodeVars, extractVars>>

MergeNext == MergeStart \/ MergeFile \/ MergeFinish

SpecMerge == MergeInit /\ [][MergeNext]_vars

-----------------------------------------------------------------------------
(* SpecExtract: runs of extract_strings over a source tree that is edited  *)
(* between the runs                                                        *)

\* the source trees of SpecExtract: the first file is unparsable, empty, a
\* single mapping or one of four sequences; the second file as in Trees
ExtractDocsA ==
    {Bad, RecChair, Items(<<>>),
     Items(<<RecChair, RecChair2>>), Items(<<RecParent, RecNoKey>>),
     Items(<<RecOdd>>), Items(<<ItemScalar, RecChair>>)}

ExtractTrees ==
    {t \in Trees : t[Join(SourceRoot, FileA)] \in ExtractDocsA}

ExtractInit ==
    /\ fs \in ExtractTrees
    /\ catalog_file = NoCatalog
    /\ cache_file = <<>>
    /\ x_args \in [fields : RunFieldLists, filter_ftl : BOOLEAN, incremental : {FALSE}]
    /\ x_pc = "idle"
    /\ x_data = <<>>
    /\ x_stats = ExtractStats0(<<>>)
    /\ x_files = <<>>
    /\ x_i = 0
    /\ x_hash_cache = <<>>
    /\ x_existing = <<>>
    /\ x_new_cache = <<>>
    /\ x_scanned = <<>>
    /\ x_runs = 0
    /\ x_edits = 0
    /\ x_hist = Hist0
    /\ translation_file = NoFile
    /\ m_args = [output_dir |-> SourceRoot, fields |-> <<>>]
    /\ m_pc = "idle"
    /\ m_map = <<>>
    /\ m_used = {}
    /\ m_stats = MergeStats0
    /\ m_files = <<>>
    /\ m_i = 0
    /\ m_log = <<>>
    /\ m_runs = 0
    /\ m_fs0 = <<>>
    /\ FtlIdle
    /\ IoIdle
    /\ FolderIdle
    /\ NodeIdle

\* extract_strings up to the loop over the files, lines 894-939
ExtractStart ==
    /\ x_pc \in {"idle", "done"}
    /\ x_runs < MaxRuns
    /\ x_runs' = x_runs + 1
    /\ \E incremental \in BOOLEAN :
          /\ x_args' = [x_args EXCEPT !.incremental = incremental]
          /\ x_hash_cache' = IF incremental THEN cache_file ELSE <<>>
          /\ x_existing' = IF incremental THEN LoadExisting(catalog_file) ELSE <<>>
    /\ x_stats' = ExtractStats0(x_args.fields)
    /\ x_data' = <<>>
    /\ x_new_cache' = <<>>
    /\ x_scanned' = <<>>
    /\ x_files' = Walk(fs, SourceRoot)
    /\ x_i' = 1
    /\ x_pc' = "loop"
    /\ x_hist' = [catalog0 |-> catalog_file, cache0 |-> cache_file,
                  inc0 |-> x_runs > 0 /\ x_args.incremental,
                  edited0 |-> x_hist.edited, edited |-> FALSE, writes |-> <<>>]
    /\ UNCHANGED <<catalog_file, cache_file, x_edits>>
    /\ UNCHANGED <<ioVars, ftlVars, folderVars, nodeVars, mergeVars>>

\* one iteration of the loop over the files, lines 941-973
ExtractFile ==
    /\ x_pc = "loop"
    /\ x_i <= Len(x_files)
    /\ LET file_path    == x_files[x_i]
           rel_path     == RelPath(file_path, SourceRoot)
           current_hash == compute_file_hash(fs[file_path])
           counted      == [x_stats EXCEPT !.files_scanned = @ + 1]
           data         == fs[file_path]
       IN  /\ x_new_cache' =
                 IF x_args.incremental
                 THEN [p \in DOMAIN x_new_cache \cup {rel_path} |->
                          IF p = rel_path THEN current_hash ELSE x_new_cache[p]]
                 ELSE x_new_cache
           /\ IF /\ x_args.incremental
                 /\ rel_path \in DOMAIN x_hash_cache
                 /\ x_hash_cache[rel_path] = current_hash
              THEN /\ x_stats' = [counted EXCEPT !.files_skipped = @ + 1]
                   /\ UNCHANGED <<x_data, x_scanned>>
              ELSE IF data.t = "bad" \/ ~Truthy(data)
              THEN /\ x_stats' = counted
                   /\ x_scanned' = Append(x_scanned, [src |-> file_path, loaded |-> data,
                                                      warned |-> data.t = "bad"])
                   /\ UNCHANGED x_data
              ELSE LET r == ExtractDocument(data, x_data, rel_path, x_args.fields,
                                            counted, x_args.filter_ftl)
                   IN  /\ x_data' = r.data
                       /\ x_stats' =
                             IF Len(r.data) > Len(x_data)
                             THEN [r.stats EXCEPT !.files_with_text = @ + 1]
                             ELSE r.stats
                       /\ x_scanned' = Append(x_scanned, [src |-> file_path, loaded |-> data,
                                                          warned |-> FALSE])
    /\ x_i' = x_i + 1
    /\ UNCHANGED <<catalog_file, cache_file, x_args, x_pc, x_files, x_hash_cache,
                   x_existing, x_runs, x_edits, x_hist>>
    /\ UNCHANGED <<ioVars, ftlVars, folderVars, nodeVars, mergeVars>>

\* after the loop, lines 975-1021: the carry-forward of an incremental run,
\* the catalog written in one piece, then the hash cache
ExtractFinish ==
    /\ x_pc = "loop"
    /\ x_i > Len(x_files)
    /\ LET merged == IF x_args.incremental /\ x_existing # <<>>
                     THEN x_data \o CarryForward(x_existing, x_data, x_new_cache)
                     ELSE x_data
       IN  /\ x_data' = merged
           /\ x_stats' = [x_stats EXCEPT !.total_strings = Len(merged)]
           /\ catalog_file' = [kind |-> "list", v |-> merged]
    /\ cache_file' = SavedCache(x_args.incremental, cache_file, x_new_cache)
    /\ x_hist' = [x_hist EXCEPT !.writes = @ \o FinishWrites(x_args.incremental)]
    /\ x_pc' = "done"
    /\ UNCHANGED <<x_args, x_files, x_i, x_hash_cache, x_existing, x_new_cache,
                   x_scanned, x_runs, x_edits>>
    /\ UNCHANGED <<ioVars, ftlVars, folderVars, nodeVars, mergeVars>>

\* between two runs a source file is rewritten, added or removed
EditFile ==
    /\ x_pc = "done"
    /\ x_edits < MaxEdits
    /\ x_edits' = x_edits + 1
    /\ x_hist' = [x_hist EXCEPT !.edited = TRUE]
    /\ \E p \in {Join(SourceRoot, FileA), Join(SourceRoot, FileB)} :
          \/ \E d \in DocsB :
                /\ IF p \in DOMAIN fs THEN fs[p] # d ELSE TRUE
                /\ fs' = WriteFile(fs, p, d)
          \/ /\ p \in DOMAIN fs
             /\ fs' = [q \in DOMAIN fs \ {p} |-> fs[q]]
    /\ UNCHANGED <<catalog_file, cache_file, x_args, x_pc, x_data, x_stats, x_files,
                   x_i, x_hash_cache, x_existing, x_new_cache, x_scanned, x_runs>>
    /\ UNCHANGED <<translation_file, m_args, m_pc, m_map, m_used, m_stats, m_files,
                   m_i, m_log, m_runs, m_fs0>>
    /\ UNCHANGED <<ioVars, ftlVars, folderVars, nodeVars>>

ExtractNext == ExtractStart \/ ExtractFile \/ ExtractFinish \/ EditFile

SpecExtract == ExtractInit /\ [][ExtractNext]_vars

-----------------------------------------------------------------------------
(* SpecRound: extract_strings over a tree, the catalog handed back with    *)
(* every original as its own translation, then merge_translations over the *)
(* same tree with the same fields                                          *)

RoundInit ==
    /\ fs \in ExtractTrees
    /\ catalog_file = NoCatalog
    /\ cache_file = <<>>
    /\ x_args \in [fields : RunFieldLists, filter_ftl : BOOLEAN, incremental : {FALSE}]
    /\ x_pc = "idle"
    /\ x_data = <<>>
    /\ x_stats = ExtractStats0(<<>>)
    /\ x_files = <<>>
    /\ x_i = 0
    /\ x_hash_cache = <<>>
    /\ x_existing = <<>>
    /\ x_new_cache = <<>>
    /\ x_scanned = <<>>
    /\ x_runs = 0
    /\ x_edits = 0
    /\ x_hist = Hist0
    /\ translation_file = NoFile
    /\ \E output_dir \in OutDirs :
          m_args = [output_dir |-> output_dir, fields |-> x_args.fields]
    /\ m_pc = "idle"
    /\ m_map = <<>>
    /\ m_used = {}
    /\ m_stats = MergeStats0
    /\ m_files = <<>>
    /\ m_i = 0
    /\ m_log = <<>>
    /\ m_runs = 0
    /\ m_fs0 = fs
    /\ FtlIdle
    /\ IoIdle
    /\ FolderIdle
    /\ NodeIdle

\* the catalog as the translators return it when they change nothing: each
\* entry's translation is its original
FedBack(catalog) ==
    [kind |-> "list",
     v    |-> [i \in 1..Len(catalog.v) |->
                  Item(catalog.v[i].key, catalog.v[i].original)]]

\* extraction comes first
RoundExtractStart ==
    /\ translation_file = NoFile
    /\ ExtractStart

\* the written catalog becomes the translation file
RoundFeedBack ==
    /\ x_pc = "done"
    /\ translation_file = NoFile
    /\ translation_file' = FedBack(catalog_file)
    /\ UNCHANGED <<fs, m_args, m_pc, m_map, m_used, m_stats, m_files, m_i, m_log,
                   m_runs, m_fs0>>
    /\ UNCHANGED <<ioVars, ftlVars, folderVars, nodeVars, extractVars>>

\* the merge comes last
RoundMergeStart ==
    /\ translation_file # NoFile
    /\ MergeStart

RoundNext ==
    \/ RoundExtractStart \/ ExtractFile \/ ExtractFinish
    \/ RoundFeedBack
    \/ RoundMergeStart \/ MergeFile \/ MergeFinish

SpecRound == RoundInit /\ [][RoundNext]_vars

-----------------------------------------------------------------------------
(* SpecFolder: a run of extract_strings_by_folder over a tree with files   *)
(* in the root and in nested directories, followed by runs of              *)
(* extract_strings over the same tree with the same fields and filter      *)

\* a record whose name holds a CJK character and whose description is a
\* symbolic key
RecCjk == MkNode(Absent, Str(<<"k">>), Absent, Absent,
                 Str(<<"U4E2D", " ", "a">>), Str(<<"a", "-", "b", "-", "c">>))

\* what each file of the tree can hold; Absent stands for no such file
FolderDocs ==
    [p \in {FileA, FileE, FileB, FileF, FileG} |->
        CASE p = FileA -> {Bad, RecChair, Items(<<RecChair, RecChair2>>)}
          [] p = FileE -> {Absent, Items(<<>>), Items(<<RecCjk>>)}
          [] p = FileB -> {Absent, Items(<<RecParent, RecNoKey>>), Items(<<RecCjk>>)}
          [] p = FileF -> {Absent, Items(<<RecParent>>)}
          [] p = FileG -> {Absent, Items(<<RecCjk, RecOdd>>)}]

FolderChoices ==
    {c \in [DOMAIN FolderDocs -> UNION {FolderDocs[p] : p \in DOMAIN FolderDocs}] :
        \A p \in DOMAIN FolderDocs : c[p] \in FolderDocs[p]}

FolderTrees ==
    {[q \in {Join(SourceRoot, p) : p \in {r \in DOMAIN FolderDocs : c[r] # Absent}} |->
         c[RelPath(q, SourceRoot)]] : c \in FolderChoices}

FolderInit ==
    /\ fs \in FolderTrees
    /\ f_args \in [output_dir : {<<"o">>}, fields : RunFieldLists, filter_ftl : BOOLEAN]
    /\ f_pc = "idle"
    /\ f_files = <<>>
    /\ f_i = 0
    /\ f_folder_data = <<>>
    /\ f_stats = FolderStats0(<<>>)
    /\ f_out = <<>>
    /\ catalog_file = NoCatalog
    /\ cache_file = <<>>
    /\ x_args = [fields |-> f_args.fields, filter_ftl |-> f_args.filter_ftl,
                 incremental |-> FALSE]
    /\ x_pc = "idle"
    /\ x_data = <<>>
    /\ x_stats = ExtractStats0(<<>>)
    /\ x_files = <<>>
    /\ x_i = 0
    /\ x_hash_cache = <<>>
    /\ x_existing = <<>>
    /\ x_new_cache = <<>>
    /\ x_scanned = <<>>
    /\ x_runs = 0
    /\ x_edits = 0
    /\ x_hist = Hist0
    /\ translation_file = NoFile
    /\ m_args = [output_dir |-> SourceRoot, fields |-> <<>>]
    /\ m_pc = "idle"
    /\ m_map = <<>>
    /\ m_used = {}
    /\ m_stats = MergeStats0
    /\ m_files = <<>>
    /\ m_i = 0
    /\ m_log = <<>>
    /\ m_runs = 0
    /\ m_fs0 = <<>>
    /\ ftl_text = <<>>
    /\ ftl_done = FALSE
    /\ ftl_result = FALSE
    /\ NodeIdle
    /\ IoIdle

\* extract_strings_by_folder up to the loop over the files, lines 1103-1129
FolderStart ==
    /\ f_pc = "idle"
    /\ f_stats' = FolderStats0(f_args.fields)
    /\ f_folder_data' = <<>>
    /\ f_files' = Walk(fs, SourceRoot)
    /\ f_i' = 1
    /\ f_pc' = "loop"
    /\ UNCHANGED <<f_args, f_out>>
    /\ UNCHANGED <<ioVars, ftlVars, nodeVars, mergeVars, extractVars>>

\* one iteration of the loop over the files, lines 1131-1169
FolderFile ==
    /\ f_pc = "loop"
    /\ f_i <= Len(f_files)
    /\ LET file_path == f_files[f_i]
           rel_path  == RelPath(file_path, SourceRoot)
           group_key == GroupKey(rel_path)
           counted   == [f_stats EXCEPT !.files_scanned = @ + 1]
           data      == fs[file_path]
       IN  IF data.t = "bad" \/ ~Truthy(data)
           THEN /\ f_stats' = counted
                /\ UNCHANGED f_folder_data
           ELSE LET r == ExtractDocument(data, <<>>, rel_path, f_args.fields,
                                         NodeStats0(f_args.fields), f_args.filter_ftl)
                IN  /\ f_folder_data' =
                          IF r.data # <<>>
                          THEN ExtendGroup(f_folder_data, group_key, r.data)
                          ELSE f_folder_data
                    /\ f_stats' =
                          AddFileStats(IF r.data # <<>>
                                       THEN [counted EXCEPT !.files_with_text = @ + 1]
                                       ELSE counted,
                                       r.stats)
    /\ f_i' = f_i + 1
    /\ UNCHANGED <<f_args, f_pc, f_files, f_out>>
    /\ UNCHANGED <<ioVars, ftlVars, nodeVars, mergeVars, extractVars>>

\* after the loop, lines 1171-1209: one JSON file per group
FolderFinish ==
    /\ f_pc = "loop"
    /\ f_i > Len(f_files)
    /\ LET w == WriteGroups(f_out, f_stats, f_args.output_dir, f_folder_data) IN
          /\ f_out' = w.out
          /\ f_stats' = w.stats
    /\ f_pc' = "done"
    /\ UNCHANGED <<f_args, f_files, f_i, f_folder_data>>
    /\ UNCHANGED <<ioVars, ftlVars, nodeVars, mergeVars, extractVars>>

\* extract_strings is run once the grouped run has returned
FolderExtractStart ==
    /\ f_pc = "done"
    /\ ExtractStart

FolderNext ==
    \/ FolderStart \/ FolderFile \/ FolderFinish
    \/ FolderExtractStart \/ ExtractFile \/ ExtractFinish

SpecFolder == FolderInit /\ [][FolderNext]_vars

-----------------------------------------------------------------------------
(* SpecRetry: one call of PZClient._request_with_retry *)

API_RETRY_COUNT == 3
API_RETRY_DELAY == 2

\* the status codes a response can carry: the ones the method names, one
\* redirect, one 4xx and one 5xx it does not name
Statuses == {200, 201, 302, 400, 401, 403, 404, 418, 429, 500, 503}

\* the Retry-After header of a response: absent, a number of seconds, a
\* negative number, an HTTP date
RetryAfters == {"absent", "seconds", "negative", "date"}

\* how requests.request can end: a response, a RequestException, or an
\* exception of another class
Response(status, retry_after) ==
    [kind |-> "response", status |-> status, retry_after |-> retry_after]

RequestException == [kind |-> "RequestException", status |-> 0, retry_after |-> "absent"]
OtherException   == [kind |-> "OtherException", status |-> 0, retry_after |-> "absent"]

AttemptOutcomes ==
    {RequestException, OtherException}
    \cup {Response(s, "absent") : s \in Statuses}
    \cup {Response(429, h) : h \in RetryAfters}

\* what the call returned or raised
NoResult == [kind |-> "none", status |-> 0]
Returned(response) == [kind |-> "returned", status |-> response.status]
Raised(error) == [kind |-> error, status |-> 0]

\* int(response.headers.get('Retry-After', API_RETRY_DELAY * 2)), line 399:
\* the seconds to wait, or "ValueError" when int() or time.sleep() refuses
WaitTime(retry_after) ==
    IF retry_after = "absent" THEN [ok |-> TRUE, seconds |-> API_RETRY_DELAY * 2]
    ELSE IF retry_after = "seconds" THEN [ok |-> TRUE, seconds |-> 7]
    ELSE [ok |-> FALSE, seconds |-> 0]

\* lines 369-404 with the mutation that tries again after a server error
AfterResponse_retries_5xx(response) ==
    IF response.status \in {401, 403, 404, 400} THEN "return"
    ELSE IF response.status >= 500 THEN "continue"
    ELSE IF response.status = 429
    THEN IF WaitTime(response.retry_after).ok THEN "continue" ELSE "raise"
    ELSE "return"

\* lines 369-404: what the loop body does with a response
AfterResponse(response) ==
    IF response.status \in {401, 403, 404, 400} THEN "return"
    ELSE IF response.status >= 500 THEN "return"
    ELSE IF response.status = 429
    THEN IF WaitTime(response.retry_after).ok THEN "continue" ELSE "raise"
    ELSE "return"

RetryInit ==
    /\ r_method \in {"GET", "POST"}
    /\ r_pc = "idle"
    /\ r_attempt = 0
    /\ r_last_error = "None"
    /\ r_log = <<>>
    /\ r_slept = <<>>
    /\ r_result = NoResult
    /\ AppIdle
    /\ UploadIdle
    /\ WorkflowIdle
    /\ FtlIdle
    /\ FolderIdle
    /\ NodeIdle
    /\ MergeIdle
    /\ ExtractIdle

\* the call, up to the loop: last_error = None, line 360
RetryCall ==
    /\ r_pc = "idle"
    /\ r_pc' = "loop"
    /\ r_attempt' = 0
    /\ r_last_error' = "None"
    /\ UNCHANGED <<r_method, r_log, r_slept, r_result>>
    /\ UNCHANGED <<appVars, upVars, wfVars, ftlVars, folderVars, nodeVars, mergeVars, extractVars>>

\* one iteration of `for attempt in range(API_RETRY_COUNT)`, lines 361-409
RetryAttempt ==
    /\ r_pc = "loop"
    /\ r_attempt < API_RETRY_COUNT
    /\ \E o \in AttemptOutcomes :
          /\ r_log' = Append(r_log, o)
          /\ IF o.kind = "RequestException"
             THEN /\ r_last_error' = "RequestException"
                  /\ r_slept' = IF r_attempt < API_RETRY_COUNT - 1
                                THEN Append(r_slept, API_RETRY_DELAY) ELSE r_slept
                  /\ r_attempt' = r_attempt + 1
                  /\ UNCHANGED <<r_pc, r_result>>
             ELSE IF o.kind = "OtherException"
             THEN /\ r_pc' = "raised"
                  /\ r_result' = Raised("OtherException")
                  /\ UNCHANGED <<r_attempt, r_last_error, r_slept>>
             ELSE IF AfterResponse(o) = "return"
             THEN /\ r_pc' = "returned"
                  /\ r_result' = Returned(o)
                  /\ UNCHANGED <<r_attempt, r_last_error, r_slept>>
             ELSE IF AfterResponse(o) = "raise"
             THEN /\ r_pc' = "raised"
                  /\ r_result' = Raised("ValueError")
                  /\ UNCHANGED <<r_attempt, r_last_error, r_slept>>
             ELSE /\ r_slept' = Append(r_slept, WaitTime(o.retry_after).seconds)
                  /\ r_attempt' = r_attempt + 1
                  /\ UNCHANGED <<r_pc, r_last_error, r_result>>
    /\ UNCHANGED r_method
    /\ UNCHANGED <<appVars, upVars, wfVars, ftlVars, folderVars, nodeVars, mergeVars, extractVars>>

\* after the loop: raise last_error if last_error else Exception, line 411
RetryExhausted ==
    /\ r_pc = "loop"
    /\ r_attempt >= API_RETRY_COUNT
    /\ r_pc' = "raised"
    /\ r_result' = Raised(IF r_last_error # "None" THEN r_last_error ELSE "Exception")
    /\ UNCHANGED <<r_method, r_attempt, r_last_error, r_log, r_slept>>
    /\ UNCHANGED <<appVars, upVars, wfVars, ftlVars, folderVars, nodeVars, mergeVars, extractVars>>

RetryNext == RetryCall \/ RetryAttempt \/ RetryExhausted

\* the thread that makes the call keeps running: every request ends within
\* its timeout and every sleep is finite
SpecRetry == RetryInit /\ [][RetryNext]_vars /\ WF_vars(RetryNext)

-----------------------------------------------------------------------------
(* SpecApp: App.run_in_thread and App.do_stop.  The desktop interface's    *)
(* thread calls run_in_thread and do_stop one after the other; every       *)
(* worker thread executes _run a statement at a time, interleaved with the *)
(* interface's thread and with the other workers.                          *)

AppInit ==
    /\ AppIdle
    /\ RetryIdle
    /\ UploadIdle
    /\ WorkflowIdle
    /\ FtlIdle
    /\ FolderIdle
    /\ NodeIdle
    /\ MergeIdle
    /\ ExtractIdle

\* the threads started so far, and the calls that were refused
Started == Cardinality({w \in Workers : a_pc[w] # "none"})
Refused == a_calls - Started

\* run_in_thread, lines 1904-1907 and 1963: refused while is_running,
\* otherwise a thread is started on _run
RunInThread ==
    /\ a_calls < MaxCalls
    /\ a_calls' = a_calls + 1
    /\ IF is_running
       THEN UNCHANGED a_pc
       ELSE a_pc' = [a_pc EXCEPT ![Started + 1] = "start"]
    /\ UNCHANGED <<is_running, stop_requested, progress_callback,
                   stop_check_callback, a_result, a_outcome, a_stop, stop_at>>
    /\ UNCHANGED <<retryVars, upVars, wfVars, ftlVars, folderVars, nodeVars, mergeVars, extractVars>>

\* where a worker in flight is when do_stop is accepted
Phase(pc) ==
    IF pc \in BeforeCall THEN "starting"
    ELSE IF pc = "call" THEN "calling" ELSE "ending"

\* the positions of _run at which the worker's outcome is on record
Recorded == BeforeCall \cup {"call", "finally"}

\* a long-running operation is in its loop over the files
ActiveOp ==
    \/ x_pc = "loop" \/ f_pc = "loop" \/ m_pc = "loop"
    \/ u_pc \in {"check", "upload"}

\* do_stop, lines 1965-1970; the first request accepted while an operation is
\* in its loop is remembered with the operation's progress
DoStop ==
    /\ is_running
    /\ stop_requested' = TRUE
    /\ a_stop' = [w \in Workers |->
                    IF a_pc[w] \in Recorded /\ a_stop[w] = "no" THEN Phase(a_pc[w])
                    ELSE a_stop[w]]
    /\ stop_at' = IF ActiveOp /\ ~stop_at.set
                  THEN [set |-> TRUE, x |-> x_i, f |-> f_i, m |-> m_i, u |-> u_i]
                  ELSE stop_at
    /\ UNCHANGED <<is_running, progress_callback, stop_check_callback,
                   a_pc, a_result, a_outcome, a_calls>>
    /\ UNCHANGED <<retryVars, upVars, wfVars, ftlVars, folderVars, nodeVars, mergeVars, extractVars>>

\* _run, line 1919: self.is_running = True
WorkerSetRunning(w) ==
    /\ a_pc[w] = "start"
    /\ is_running' = TRUE
    /\ a_pc' = [a_pc EXCEPT ![w] = "reset"]
    /\ UNCHANGED <<stop_requested, progress_callback, stop_check_callback,
                   a_result, a_outcome, a_stop, a_calls, stop_at>>
    /\ UNCHANGED <<retryVars, upVars, wfVars, ftlVars, folderVars, nodeVars, mergeVars, extractVars>>

\* _run, line 1920: self.stop_requested = False
WorkerResetStop(w) ==
    /\ a_pc[w] = "reset"
    /\ stop_requested' = FALSE
    /\ a_pc' = [a_pc EXCEPT ![w] = "set_callbacks"]
    /\ UNCHANGED <<is_running, progress_callback, stop_check_callback,
                   a_result, a_outcome, a_stop, a_calls, stop_at>>
    /\ UNCHANGED <<retryVars, upVars, wfVars, ftlVars, folderVars, nodeVars, mergeVars, extractVars>>

\* _run, lines 1928-1929: set_progress_callback(self.update_progress) and
\* set_stop_check_callback(lambda: self.stop_requested)
WorkerSetCallbacks(w) ==
    /\ a_pc[w] = "set_callbacks"
    /\ progress_callback' = TRUE
    /\ stop_check_callback' = TRUE
    /\ a_pc' = [a_pc EXCEPT ![w] = "call"]
    /\ UNCHANGED <<is_running, stop_requested, a_result, a_outcome, a_stop, a_calls, stop_at>>
    /\ UNCHANGED <<retryVars, upVars, wfVars, ftlVars, folderVars, nodeVars, mergeVars, extractVars>>

\* what func can return: True, False, None (or a statistics dictionary)
FuncResults == {"True", "False", "None"}

\* _run, lines 1934-1954: the status text set after func has returned or
\* raised
Outcome(stop, result) ==
    IF stop THEN "stopped"
    ELSE IF result = "raised" THEN "error"
    ELSE IF result = "False" THEN "failed" ELSE "success"

\* lines 1931-1961 with the mutation that cleans up after the try block
\* instead of in a finally clause, so that an exception leaves _run at once
AfterFunc_cleanup_not_final(result) ==
    IF result = "raised" THEN "ended" ELSE "finally"

\* _run, lines 1931-1961: the finally clause is entered whether func returned
\* or raised
AfterFunc(result) == "finally"

\* _run, lines 1932-1954: result = func(*args) returns or raises, and the
\* branch on self.stop_requested and on the result sets the status text
WorkerCall(w) ==
    /\ a_pc[w] = "call"
    /\ \E result \in FuncResults \cup {"raised"} :
          /\ a_result' = [a_result EXCEPT ![w] = result]
          /\ a_outcome' = [a_outcome EXCEPT ![w] = Outcome(stop_requested, result)]
          /\ a_pc' = [a_pc EXCEPT ![w] = AfterFunc(result)]
    /\ UNCHANGED <<is_running, stop_requested, progress_callback,
                   stop_check_callback, a_stop, a_calls, stop_at>>
    /\ UNCHANGED <<retryVars, upVars, wfVars, ftlVars, folderVars, nodeVars, mergeVars, extractVars>>

\* _run, line 1956: self.is_running = False
WorkerClearRunning(w) ==
    /\ a_pc[w] = "finally"
    /\ is_running' = FALSE
    /\ a_pc' = [a_pc EXCEPT ![w] = "finally_stop"]
    /\ a_outcome' = [a_outcome EXCEPT ![w] = "none"]
    /\ a_stop' = [a_stop EXCEPT ![w] = "no"]
    /\ UNCHANGED <<stop_requested, progress_callback, stop_check_callback,
                   a_result, a_calls, stop_at>>
    /\ UNCHANGED <<retryVars, upVars, wfVars, ftlVars, folderVars, nodeVars, mergeVars, extractVars>>

\* _run, line 1957: self.stop_requested = False
WorkerClearStop(w) ==
    /\ a_pc[w] = "finally_stop"
    /\ stop_requested' = FALSE
    /\ a_pc' = [a_pc EXCEPT ![w] = "finally_callbacks"]
    /\ UNCHANGED <<is_running, progress_callback, stop_check_callback,
                   a_result, a_outcome, a_stop, a_calls, stop_at>>
    /\ UNCHANGED <<retryVars, upVars, wfVars, ftlVars, folderVars, nodeVars, mergeVars, extractVars>>

\* _run, lines 1958-1959: set_progress_callback(None) and
\* set_stop_check_callback(None); the thread ends
WorkerClearCallbacks(w) ==
    /\ a_pc[w] = "finally_callbacks"
    /\ progress_callback' = FALSE
    /\ stop_check_callback' = FALSE
    /\ a_pc' = [a_pc EXCEPT ![w] = "ended"]
    /\ a_result' = [a_result EXCEPT ![w] = "none"]
    /\ UNCHANGED <<is_running, stop_requested, a_outcome, a_stop, a_calls, stop_at>>
    /\ UNCHANGED <<retryVars, upVars, wfVars, ftlVars, folderVars, nodeVars, mergeVars, extractVars>>

\* the statements of _run that follow the call of func
WorkerAfterCall(w) ==
    WorkerClearRunning(w) \/ WorkerClearStop(w) \/ WorkerClearCallbacks(w)

AppNext ==
    \/ RunInThread
    \/ DoStop
    \/ \E w \in Workers :
          \/ WorkerSetRunning(w) \/ WorkerResetStop(w) \/ WorkerSetCallbacks(w)
          \/ WorkerCall(w) \/ WorkerAfterCall(w)

\* a worker thread that has entered the finally clause is scheduled until
\* _run ends
SpecApp ==
    AppInit /\ [][AppNext]_vars /\ \A w \in Workers : WF_vars(WorkerAfterCall(w))

-----------------------------------------------------------------------------
(* PZClient.upload_folder and PZClient.upload_translation_folder *)

FileJsonA == <<"a", ".json">>
FileJsonB == <<"d", "/", "b", ".json">>
FileJsonC == <<"d", "/", "c", ".json">>

\* f.endswith('.json'), line 544
IsJson(path) == path # <<>> /\ path[Len(path)] = ".json"

\* a set of paths as a list, in the order the directory walk yields them
RECURSIVE ListOf(_)
ListOf(S) ==
    IF S = {} THEN <<>>
    ELSE LET p == CHOOSE q \in S : TRUE IN <<p>> \o ListOf(S \ {p})

\* lines 536-551: the JSON files below local_dir, relative to it; none when
\* local_dir is not a directory
JsonFiles(files, local_dir) ==
    ListOf({RelPath(p, local_dir) :
               p \in {q \in DOMAIN files : Under(q, local_dir) /\ IsJson(q)}})

\* lines 534-553 (and 660-681): up to the loop
UploadStart(kind, json_files) ==
    /\ u_pc = "idle"
    /\ u_args' = [kind |-> kind]
    /\ u_files' = json_files
    /\ u_i' = 0
    /\ u_stats' = UploadStats0
    /\ u_pc' = IF json_files = <<>> THEN "done" ELSE "check"
    /\ UNCHANGED <<retryVars, appVars, wfVars>>
    /\ UNCHANGED <<ftlVars, folderVars, nodeVars, mergeVars, extractVars>>

\* lines 555-560 (and 682-686): the head of the loop; should_stop() is asked
\* before each file
UploadCheck ==
    /\ u_pc = "check"
    /\ IF u_i >= Len(u_files)
       THEN u_pc' = "done" /\ UNCHANGED u_stats
       ELSE IF should_stop
       THEN /\ u_stats' = [u_stats EXCEPT !.skipped = Len(u_files) - u_i]
            /\ u_pc' = "done"
       ELSE u_pc' = "upload" /\ UNCHANGED u_stats
    /\ UNCHANGED <<u_args, u_files, u_i>>
    /\ UNCHANGED <<retryVars, appVars, wfVars>>
    /\ UNCHANGED <<ftlVars, folderVars, nodeVars, mergeVars, extractVars>>

\* lines 562-599 (and 688-709): one file is sent; upload_file (or
\* upload_translation) returns True or False
UploadFile ==
    /\ u_pc = "upload"
    /\ \E ok \in BOOLEAN :
          u_stats' = IF ok THEN [u_stats EXCEPT !.uploaded = @ + 1]
                     ELSE [u_stats EXCEPT !.failed = @ + 1]
    /\ u_i' = u_i + 1
    /\ u_pc' = "check"
    /\ UNCHANGED <<u_args, u_files>>
    /\ UNCHANGED <<retryVars, appVars, wfVars>>
    /\ UNCHANGED <<ftlVars, folderVars, nodeVars, mergeVars, extractVars>>

-----------------------------------------------------------------------------
(* SpecStop: one long-running operation run by a worker of run_in_thread,  *)
(* with do_stop called at any moment                                       *)

\* the worker has set is_running and the callbacks and is in func
AppCalling ==
    /\ is_running = TRUE
    /\ stop_requested = FALSE
    /\ progress_callback = TRUE
    /\ stop_check_callback = TRUE
    /\ a_pc = [w \in Workers |-> IF w = 1 THEN "call" ELSE "none"]
    /\ a_result = [w \in Workers |-> "none"]
    /\ a_outcome = [w \in Workers |-> "none"]
    /\ a_stop = [w \in Workers |-> "no"]
    /\ a_calls = 1
    /\ stop_at = NoStop

\* the source trees of SpecStop: one, two or three files
StopTrees ==
    {t \in FolderTrees :
        /\ Join(SourceRoot, FileA) \in DOMAIN t
        /\ t[Join(SourceRoot, FileA)] = RecChair
        /\ Join(SourceRoot, FileE) \notin DOMAIN t
        /\ Join(SourceRoot, FileG) \notin DOMAIN t}

\* the directories upload_folder is given
UploadLists ==
    {<<>>, <<FileJsonA>>, <<FileJsonA, FileJsonB>>, <<FileJsonA, FileJsonB, FileJsonC>>}

StopInit ==
    /\ AppCalling
    /\ RetryIdle
    /\ UploadIdle
    /\ WorkflowIdle
    /\ FtlIdle
    /\ NodeIdle
    /\ fs \in StopTrees
    /\ translation_file = [kind |-> "list", v |-> <<Item(KeyChairName, <<"T">>)>>]
    /\ m_args = [output_dir |-> <<"o">>, fields |-> <<"name", "description">>]
    /\ m_pc = "idle"
    /\ m_map = <<>>
    /\ m_used = {}
    /\ m_stats = MergeStats0
    /\ m_files = <<>>
    /\ m_i = 0
    /\ m_log = <<>>
    /\ m_runs = 0
    /\ m_fs0 = fs
    /\ catalog_file = NoCatalog
    /\ cache_file = <<>>
    /\ x_args = [fields |-> <<"name", "description">>, filter_ftl |-> TRUE,
                 incremental |-> FALSE]
    /\ x_pc = "idle"
    /\ x_data = <<>>
    /\ x_stats = ExtractStats0(<<>>)
    /\ x_files = <<>>
    /\ x_i = 0
    /\ x_hash_cache = <<>>
    /\ x_existing = <<>>
    /\ x_new_cache = <<>>
    /\ x_scanned = <<>>
    /\ x_runs = 0
    /\ x_edits = 0
    /\ x_hist = Hist0
    /\ f_args = [output_dir |-> <<"o">>, fields |-> <<"name", "description">>,
                 filter_ftl |-> TRUE]
    /\ f_pc = "idle"
    /\ f_files = <<>>
    /\ f_i = 0
    /\ f_folder_data = <<>>
    /\ f_stats = FolderStats0(<<>>)
    /\ f_out = <<>>

\* no operation has been started
NoOperation ==
    x_pc = "idle" /\ f_pc = "idle" /\ m_pc = "idle" /\ u_pc = "idle"

\* func is extract_strings, extract_strings_by_folder, merge_translations,
\* upload_folder or upload_translation_folder
StopExtractStart == NoOperation /\ ExtractStart

StopFolderStart == NoOperation /\ FolderStart

StopMergeStart == NoOperation /\ MergeStart

StopUploadStart ==
    /\ NoOperation
    /\ \E kind \in {"upload_folder", "upload_translation_folder"},
          json_files \in UploadLists : UploadStart(kind, json_files)

StopNext ==
    \/ DoStop
    \/ StopExtractStart \/ ExtractFile \/ ExtractFinish
    \/ StopFolderStart \/ FolderFile \/ FolderFinish
    \/ StopMergeStart \/ MergeFile \/ MergeFinish
    \/ StopUploadStart \/ UploadCheck \/ UploadFile

SpecStop == StopInit /\ [][StopNext]_vars

-----------------------------------------------------------------------------
(* SpecWorkflow: one call of run_full_workflow by a worker of              *)
(* run_in_thread, with do_stop called at any moment.  w_steps holds, for   *)
(* every step started, its name and how it ended: "running", "returned",   *)
(* "raised", or the value the step's call returned.                        *)

StepNames == <<"extract", "upload", "download", "merge">>

\* a step is entered
Begin(steps, name) == Append(steps, [step |-> name, result |-> "running"])

\* the step in progress ends
End(steps, result) == [steps EXCEPT ![Len(steps)].result = result]

\* the source trees of SpecWorkflow: one to three files, the first of them
\* possibly unparsable
WorkflowTrees ==
    {t \in FolderTrees :
        /\ Join(SourceRoot, FileE) \notin DOMAIN t
        /\ Join(SourceRoot, FileG) \notin DOMAIN t}

\* what the export of the remote project can hold for translation_json
Downloads ==
    {[kind |-> "list", v |-> <<Item(KeyChairName, <<"T">>)>>],
     [kind |-> "invalid", v |-> <<>>]}

WorkflowInit ==
    /\ AppCalling
    /\ RetryIdle
    /\ UploadIdle
    /\ FtlIdle
    /\ NodeIdle
    /\ w_args \in [by_folder : BOOLEAN, credentials : BOOLEAN]
    /\ w_pc = "idle"
    /\ w_ret = "none"
    /\ w_steps = <<>>
    /\ fs \in WorkflowTrees
    /\ translation_file = NoFile
    /\ m_args = [output_dir |-> <<"m">>, fields |-> <<"name", "description">>]
    /\ m_pc = "idle"
    /\ m_map = <<>>
    /\ m_used = {}
    /\ m_stats = MergeStats0
    /\ m_files = <<>>
    /\ m_i = 0
    /\ m_log = <<>>
    /\ m_runs = 0
    /\ m_fs0 = fs
    /\ catalog_file = NoCatalog
    /\ cache_file = <<>>
    /\ x_args = [fields |-> <<"name", "description">>, filter_ftl |-> TRUE,
                 incremental |-> FALSE]
    /\ x_pc = "idle"
    /\ x_data = <<>>
    /\ x_stats = ExtractStats0(<<>>)
    /\ x_files = <<>>
    /\ x_i = 0
    /\ x_hash_cache = <<>>
    /\ x_existing = <<>>
    /\ x_new_cache = <<>>
    /\ x_scanned = <<>>
    /\ x_runs = 0
    /\ x_edits = 0
    /\ x_hist = Hist0
    /\ f_args = [output_dir |-> <<"o">>, fields |-> <<"name", "description">>,
                 filter_ftl |-> TRUE]
    /\ f_pc = "idle"
    /\ f_files = <<>>
    /\ f_i = 0
    /\ f_folder_data = <<>>
    /\ f_stats = FolderStats0(<<>>)
    /\ f_out = <<>>

\* return False / return True
WfReturn(value) ==
    /\ w_ret' = value
    /\ w_pc' = "returned"

\* lines 1356-1365: step 1 is announced
WfStart ==
    /\ w_pc = "idle"
    /\ w_steps' = Begin(w_steps, "extract")
    /\ w_pc' = "extract"
    /\ UNCHANGED <<w_args, w_ret>>
    /\ UNCHANGED <<retryVars, appVars, upVars>>
    /\ UNCHANGED <<ftlVars, folderVars, nodeVars, mergeVars, extractVars>>

\* lines 1366-1374: extract_strings_by_folder or extract_strings is called
WfExtractCall ==
    /\ w_pc = "extract"
    /\ x_pc = "idle" /\ f_pc = "idle"
    /\ IF w_args.by_folder THEN FolderStart ELSE ExtractStart

\* the loop over the files of the extraction in progress
WfExtractFile ==
    /\ w_pc = "extract"
    /\ ExtractFile \/ FolderFile

\* the extraction writes its output and returns
WfExtractFinish ==
    /\ w_pc = "extract"
    /\ ExtractFinish \/ FolderFinish

\* the extraction is at the point where it writes its output
AtOutput ==
    \/ x_pc = "loop" /\ x_i > Len(x_files)
    \/ f_pc = "loop" /\ f_i > Len(f_files)

\* lines 1375-1377: the output cannot be written (open raises at line 1012,
\* os.makedirs or open at lines 1190-1195), the exception is caught
WfExtractRaises ==
    /\ w_pc = "extract"
    /\ AtOutput
    /\ w_steps' = End(w_steps, "raised")
    /\ WfReturn("False")
    /\ UNCHANGED w_args
    /\ UNCHANGED <<retryVars, appVars, upVars>>
    /\ UNCHANGED <<ftlVars, folderVars, nodeVars, mergeVars, extractVars>>

\* lines 1379-1380: the extraction has returned, step 2 is announced
WfExtracted ==
    /\ w_pc = "extract"
    /\ x_pc = "done" \/ f_pc = "done"
    /\ w_steps' = Begin(End(w_steps, "returned"), "upload")
    /\ w_pc' = "connect"
    /\ UNCHANGED <<w_args, w_ret>>
    /\ UNCHANGED <<retryVars, appVars, upVars>>
    /\ UNCHANGED <<ftlVars, folderVars, nodeVars, mergeVars, extractVars>>

\* lines 1381-1385 (and 1398-1400): PZClient raises ValueError without a
\* project id or a token; test_connection returns True or False
WfConnect ==
    /\ w_pc = "connect"
    /\ IF ~w_args.credentials
       THEN w_steps' = End(w_steps, "raised") /\ WfReturn("False")
       ELSE \E ok \in BOOLEAN :
               IF ok THEN w_pc' = "upload" /\ UNCHANGED <<w_steps, w_ret>>
               ELSE w_steps' = End(w_steps, "False") /\ WfReturn("False")
    /\ UNCHANGED w_args
    /\ UNCHANGED <<retryVars, appVars, upVars>>
    /\ UNCHANGED <<ftlVars, folderVars, nodeVars, mergeVars, extractVars>>

\* lines 1393-1397: upload_file returns True or False
WfUploadFile ==
    /\ w_pc = "upload"
    /\ ~w_args.by_folder
    /\ \E ok \in BOOLEAN :
          IF ok
          THEN /\ w_steps' = Begin(End(w_steps, "True"), "download")
               /\ w_pc' = "download"
               /\ UNCHANGED w_ret
          ELSE w_steps' = End(w_steps, "False") /\ WfReturn("False")
    /\ UNCHANGED w_args
    /\ UNCHANGED <<retryVars, appVars, upVars>>
    /\ UNCHANGED <<ftlVars, folderVars, nodeVars, mergeVars, extractVars>>

\* lines 1387-1389: client.upload_folder(output_json) is called
WfUploadFolder ==
    /\ w_pc = "upload"
    /\ w_args.by_folder
    /\ UploadStart("upload_folder", JsonFiles(f_out, f_args.output_dir))

\* lines 1390-1392: upload_folder has returned its stats
WfUploaded ==
    /\ w_pc = "upload"
    /\ w_args.by_folder
    /\ u_pc = "done"
    /\ IF u_stats.failed > u_stats.uploaded
       THEN w_steps' = End(w_steps, "returned") /\ WfReturn("False")
       ELSE /\ w_steps' = Begin(End(w_steps, "returned"), "download")
            /\ w_pc' = "download"
            /\ UNCHANGED w_ret
    /\ UNCHANGED w_args
    /\ UNCHANGED <<retryVars, appVars, upVars>>
    /\ UNCHANGED <<ftlVars, folderVars, nodeVars, mergeVars, extractVars>>

\* lines 1402-1410, with download_artifacts, lines 739-795,
\* and _extract_translations_from_zip, lines 797-843: the call returns True
\* with the first JSON member of the archive saved as translation_json, True
\* with an archive without any JSON member unpacked beside it, or a falsy
\* value
WfDownload ==
    /\ w_pc = "download"
    /\ \/ /\ \E saved \in Downloads : translation_file' = saved
          /\ w_steps' = Begin(End(w_steps, "True"), "merge")
          /\ w_pc' = "merge"
          /\ UNCHANGED w_ret
       \/ /\ UNCHANGED translation_file
          /\ w_steps' = Begin(End(w_steps, "True"), "merge")
          /\ w_pc' = "merge"
          /\ UNCHANGED w_ret
       \/ /\ UNCHANGED translation_file
          /\ w_steps' = End(w_steps, "False")
          /\ WfReturn("False")
    /\ UNCHANGED w_args
    /\ UNCHANGED <<fs, m_args, m_pc, m_map, m_used, m_stats, m_files, m_i, m_log,
                   m_runs, m_fs0>>
    /\ UNCHANGED <<retryVars, appVars, upVars>>
    /\ UNCHANGED <<ftlVars, folderVars, nodeVars, extractVars>>

\* lines 1414-1415: merge_translations is called
WfMergeCall ==
    /\ w_pc = "merge"
    /\ m_pc = "idle"
    /\ MergeStart

\* lines 1416-1423: merge_translations has returned its stats, or json.load
\* has raised and the exception is caught
WfMerged ==
    /\ w_pc = "merge"
    /\ m_pc \in {"done", "raised"}
    /\ IF m_pc = "raised"
       THEN w_steps' = End(w_steps, "raised") /\ WfReturn("False")
       ELSE w_steps' = End(w_steps, "returned") /\ WfReturn("True")
    /\ UNCHANGED w_args
    /\ UNCHANGED <<retryVars, appVars, upVars>>
    /\ UNCHANGED <<ftlVars, folderVars, nodeVars, mergeVars, extractVars>>

\* do_stop while run_full_workflow is running
WfDoStop ==
    /\ w_pc \notin {"idle", "returned"}
    /\ DoStop

WorkflowNext ==
    \/ WfStart \/ WfDoStop
    \/ WfExtractCall \/ WfExtractFile \/ WfExtractFinish
    \/ WfExtractRaises \/ WfExtracted
    \/ WfConnect \/ WfUploadFile
    \/ WfUploadFolder \/ UploadCheck \/ UploadFile \/ WfUploaded
    \/ WfDownload
    \/ WfMergeCall \/ MergeFile \/ MergeFinish \/ WfMerged

SpecWorkflow == WorkflowInit /\ [][WorkflowNext]_vars

-----------------------------------------------------------------------------
(* SpecStale: process_node_extract with the filter on, then                *)
(* process_node_merge on the same record with the same fields, the catalog *)
(* being the one just extracted or one extracted from an earlier version   *)
(* of the record                                                           *)

\* the text every field held in the earlier version of the record
EarlierText == Str(<<"a", " ", "b">>)

\* the earlier version of a record: the same mapping, with text in every
\* translatable field it has
RECURSIVE EarlierVersionFrom(_, _)
EarlierVersionFrom(node, names) ==
    IF names = {} THEN node
    ELSE LET f == CHOOSE g \in names : TRUE IN
         EarlierVersionFrom(IF Has(node, f) THEN SetField(node, f, EarlierText)
                            ELSE node, names \ {f})

EarlierVersion(node) ==
    IF node.t = "dict" THEN EarlierVersionFrom(node, FieldNames) ELSE node

\* the catalog extracted from the earlier version, with a translation for
\* every entry, loaded as merge_translations loads a list, lines 1240-1245
StaleCatalog(node, fields) ==
    LET data == process_node_extract(EarlierVersion(node), <<>>, NodePath, fields,
                                     NodeStats0(fields), TRUE).data
    IN  [k \in {data[i].key : i \in 1..Len(data)} |-> NodeTranslation]

StaleInit ==
    /\ NodeInit
    /\ n_filter = TRUE

\* the catalog handed to the merge is an older one
NodeStaleCatalog ==
    /\ n_pc = "extracted"
    /\ n_map' = StaleCatalog(n_node, n_fields)
    /\ n_pc' = "translated"
    /\ UNCHANGED <<n_node, n_fields, n_filter, n_data, n_stats, n_out, n_res, n_used>>
    /\ UNCHANGED <<ioVars, ftlVars, folderVars, mergeVars, extractVars>>

StaleNext == NodeExtract \/ NodeTranslate \/ NodeStaleCatalog \/ NodeMerge

SpecStale == StaleInit /\ [][StaleNext]_vars

-----------------------------------------------------------------------------
(* Claims about is_ftl_key *)

HasInteriorSpace(s) == Contains(strip(s), " ")

CountOf(s, c) == Cardinality({i \in 1..Len(s) : s[i] = c})

C5_SymbolicExactly ==
    (ftl_done /\ ftl_text # <<>>
       /\ \A i \in 1..Len(ftl_text) : ftl_text[i] \notin Whitespace)
    => (ftl_result <=>
          /\ CountOf(ftl_text, "-") >= 2
          /\ \A i \in 1..Len(ftl_text) :
                ftl_text[i] = "-" \/ IsAlphaChar(ftl_text[i]))

C5_Witness ==
    /\ ftl_done
    /\ ftl_text = <<"a", "-", "-", "T">>
    /\ ftl_result = TRUE

-----------------------------------------------------------------------------
(* Claims about process_node_extract and process_node_merge *)

\* the selection predicate: a mapping with an `id` key or `type: entity`
Selected(node) ==
    node.t = "dict" /\ (Has(node, "id") \/ ValEq(Get(node, "type"), Str(<<"entity">>)))

\* the key prefix as the specification words it
StatedPrefix(node) ==
    IF Truthy(Get(node, "id")) THEN PyStr(Get(node, "id"))
    ELSE <<"Parent_">>
         \o (IF Get(node, "parent").t = "list"
             THEN Head(Get(node, "parent").v) ELSE PyStr(Get(node, "parent")))
         \o (IF Truthy(Get(node, "suffix"))
             THEN <<"_">> \o PyStr(Get(node, "suffix")) ELSE <<>>)

\* the field holds a string that is not blank
HasText(node, f) ==
    Has(node, f) /\ Get(node, f).t = "str" /\ strip(Get(node, f).v) # <<>>

\* the field's string is excluded as a symbolic key
Filtered(node, f, filter_ftl) ==
    HasText(node, f) /\ filter_ftl /\ is_ftl_key(Get(node, f))

Emitted(node, f, filter_ftl) ==
    HasText(node, f) /\ ~Filtered(node, f, filter_ftl)

KeysOf(data) == {data[i].key : i \in 1..Len(data)}

\* C1: for a selected record the key of every entry is the stated prefix
\* (the id when non-empty, else "Parent_" + first parent + optional "_" +
\* suffix), then "." and the field; every field that is emitted has that
\* key; a record with neither a non-empty id nor a non-empty parent, or one
\* that is not selected, gives no entry.
C1_KeyPrefix ==
    (n_pc \in {"extracted", "translated", "merged"} /\ n_node.t = "dict") =>
        IF Selected(n_node)
           /\ (Truthy(Get(n_node, "id")) \/ Truthy(Get(n_node, "parent")))
        THEN /\ \A i \in 1..Len(n_data) : \E j \in 1..Len(n_fields) :
                    n_data[i].key = StatedPrefix(n_node) \o <<".", n_fields[j]>>
             /\ \A j \in 1..Len(n_fields) :
                    Emitted(n_node, n_fields[j], n_filter) =>
                        StatedPrefix(n_node) \o <<".", n_fields[j]>> \in KeysOf(n_data)
        ELSE n_data = <<>>

C1_Witness ==
    /\ n_node.t = "dict"
    /\ n_pc = "extracted"
    /\ Get(n_node, "id") = Str(<<>>)
    /\ Get(n_node, "parent") = List(<<<<"p">>, <<"q">>>>)
    /\ KeysOf(n_data) = {<<"Parent_", "p", "_", "s", ".", "name">>}

\* C2: extract and merge treat every record alike: both find it ineligible or
\* both derive the same prefix; merging the translated catalog of a record
\* into that record uses exactly the keys it was extracted under and writes
\* the translation into each field an entry came from.
C2_SameKey ==
    /\ n_node.t = "dict" => ExtractKeyPrefix(n_node) = MergeKeyPrefix(n_node)
    /\ (n_pc = "merged" /\ n_node.t = "dict") =>
          /\ n_used = KeysOf(n_data)
          /\ \A j \in 1..Len(n_fields) :
                (ExtractKeyPrefix(n_node).ok
                   /\ Emitted(n_node, n_fields[j], n_filter)) =>
                    Get(n_out, n_fields[j]) = NodeTranslation

C2_Witness ==
    /\ n_node.t = "dict"
    /\ n_pc = "merged"
    /\ ~Truthy(Get(n_node, "id"))
    /\ Truthy(Get(n_node, "suffix"))
    /\ n_used = {<<"Parent_", "5", "_", "s", ".", "name">>}
    /\ n_res.applied = 1

\* the fields of the list, in order, that satisfy P
Positions(fields, P(_)) == SelectSeq(fields, P)

\* C6: for an eligible record, each field of `fields` holding a non-blank
\* string is either filtered (ftl_skipped + 1, no entry) or emitted as one
\* entry with the value unchanged (by_field + 1), in the order of `fields`;
\* no other field emits or counts anything; without filtering nothing is
\* filtered.
C6_ExtractFields ==
    (n_pc \in {"extracted", "translated", "merged"}
       /\ n_node.t = "dict" /\ ExtractKeyPrefix(n_node).ok) =>
        LET emitted  == Positions(n_fields, LAMBDA f : Emitted(n_node, f, n_filter))
            filtered == Positions(n_fields, LAMBDA f : Filtered(n_node, f, n_filter))
        IN  /\ Len(n_data) = Len(emitted)
            /\ \A i \in 1..Len(emitted) :
                  /\ n_data[i].key = MakeKey(ExtractKeyPrefix(n_node).prefix, emitted[i])
                  /\ Str(n_data[i].original) = Get(n_node, emitted[i])
                  /\ SubSeq(n_data[i].context, 1, 2 + Len(NodePath) + 1)
                        = <<"U6587U4EF6:", " ">> \o NodePath \o <<"\n">>
            /\ n_stats.ftl_skipped = Len(filtered)
            /\ DOMAIN n_stats.by_field = {n_fields[j] : j \in 1..Len(n_fields)}
            /\ \A f \in DOMAIN n_stats.by_field :
                  n_stats.by_field[f] = Len(SelectSeq(emitted, LAMBDA g : g = f))
            /\ ~n_filter => Len(filtered) = 0

C6_Witness ==
    /\ n_node.t = "dict"
    /\ n_pc = "extracted"
    /\ n_filter
    /\ n_fields = <<"name", "description">>
    /\ Get(n_node, "name") = Str(<<"a", " ", "b">>)
    /\ Get(n_node, "description") = Str(<<"a", "-", "-">>)
    /\ Len(n_data) = 1
    /\ n_stats.ftl_skipped = 1
    /\ n_stats.by_field = [name |-> 1, description |-> 0]

-----------------------------------------------------------------------------
(* Claims about merge_translations *)

\* the records of a parsed document, in order
Records(doc) ==
    IF doc.t = "seq" THEN doc.v ELSE IF doc.t = "dict" THEN <<doc>> ELSE <<>>

\* the document was parsed and is not empty
Parsed(doc) == doc.t # "bad" /\ Truthy(doc)

\* a record from which a key can be derived
Eligible(node) ==
    /\ Selected(node)
    /\ Truthy(Get(node, "id")) \/ Truthy(Get(node, "parent"))

StatedKey(node, f) == StatedPrefix(node) \o <<".", f>>

\* the field is present on an eligible record and its key has a translation
Matched(node, f, map) ==
    node.t = "dict" /\ Eligible(node) /\ Has(node, f) /\ StatedKey(node, f) \in DOMAIN map

RECURSIVE SumSeq(_)
SumSeq(s) == IF s = <<>> THEN 0 ELSE Head(s) + SumSeq(Tail(s))

\* number of entries of the fields list matched on the record
MatchedCount(node, fields, map) ==
    Cardinality({j \in 1..Len(fields) : Matched(node, fields[j], map)})

\* number of pairs of the record whose value differs between the two versions
ChangedCount(old, new) ==
    IF old.t # "dict" THEN 0
    ELSE Cardinality({p \in 1..Len(old.v) : new.v[p] # old.v[p]})

DocMatched(doc, fields, map) ==
    SumSeq([i \in 1..Len(Records(doc)) |-> MatchedCount(Records(doc)[i], fields, map)])

DocChanged(old, new) ==
    SumSeq([i \in 1..Len(Records(old)) |-> ChangedCount(Records(old)[i], Records(new)[i])])

ParsedLog == SelectSeq(m_log, LAMBDA e : Parsed(e.loaded))

\* C7: in every parsed document, every matched field of an eligible record
\* has its key marked used and, when the translation is non-empty, holds the
\* translation after the merge (all records sharing the key alike);
\* strings_applied is the number of fields overwritten and strings_applied +
\* strings_skipped the number of matched (record, field) pairs.
C7_MergeApplies ==
    /\ \A n \in 1..Len(ParsedLog) :
          LET e == ParsedLog[n] IN
          \A i \in 1..Len(Records(e.loaded)) : \A j \in 1..Len(m_args.fields) :
              LET node == Records(e.loaded)[i]
                  f    == m_args.fields[j]
              IN  Matched(node, f, m_map) =>
                    /\ StatedKey(node, f) \in m_used
                    /\ Truthy(m_map[StatedKey(node, f)]) =>
                          Get(Records(e.data)[i], f) = m_map[StatedKey(node, f)]
    /\ m_stats.strings_applied =
          SumSeq([n \in 1..Len(ParsedLog) |->
                     DocChanged(ParsedLog[n].loaded, ParsedLog[n].data)])
    /\ m_stats.strings_applied + m_stats.strings_skipped =
          SumSeq([n \in 1..Len(ParsedLog) |->
                     DocMatched(ParsedLog[n].loaded, m_args.fields, m_map)])

C7_Witness ==
    /\ m_pc = "done"
    /\ Len(m_log) = 2
    /\ m_log[1].loaded = Items(<<RecChair, RecChair2>>)
    /\ m_log[2].loaded = RecChair
    /\ m_map = [k \in {KeyChairName} |-> Str(<<"T">>)]
    /\ Get(m_log[1].data.v[1], "name") = Str(<<"T">>)
    /\ Get(m_log[2].data, "name") = Str(<<"T">>)
    /\ m_stats.strings_applied = 2
    /\ m_stats.strings_skipped = 1

\* C8: the merge changes the value of a field only if the field is in
\* `fields`, the record is eligible, its key is in the translation map and
\* the translation is non-empty and differs from the value; nothing else of
\* a document changes: the records, their order, the fields of each record
\* and their order stay as loaded.
C8_MergeFrame ==
    \A n \in 1..Len(m_log) :
        LET e == m_log[n] IN
        /\ e.data.t = e.loaded.t
        /\ ~Parsed(e.loaded) => e.data = e.loaded
        /\ Len(Records(e.data)) = Len(Records(e.loaded))
        /\ \A i \in 1..Len(Records(e.loaded)) :
              LET old == Records(e.loaded)[i]
                  new == Records(e.data)[i]
              IN  IF old.t # "dict" THEN new = old
                  ELSE /\ new.t = "dict"
                       /\ Len(new.v) = Len(old.v)
                       /\ \A p \in 1..Len(old.v) :
                             /\ new.v[p].k = old.v[p].k
                             /\ new.v[p].v # old.v[p].v =>
                                   /\ \E j \in 1..Len(m_args.fields) :
                                         m_args.fields[j] = old.v[p].k
                                   /\ Matched(old, old.v[p].k, m_map)
                                   /\ Truthy(m_map[StatedKey(old, old.v[p].k)])
                                   /\ ValNe(m_map[StatedKey(old, old.v[p].k)], old.v[p].v)
                                   /\ new.v[p].v = m_map[StatedKey(old, old.v[p].k)]

C8_Witness ==
    /\ m_pc = "done"
    /\ m_map = [k \in {KeyChairName} |-> Str(<<"T">>)]
    /\ m_args.fields = <<"name", "description">>
    /\ Len(m_log) >= 1
    /\ m_log[1].loaded = Items(<<RecNoKey, RecChair>>)
    /\ m_log[1].data = Items(<<RecNoKey, SetField(RecChair, "name", Str(<<"T">>))>>)

\* the paths written by the run so far
WrittenPaths == {m_log[n].dst : n \in {k \in 1..Len(m_log) : m_log[k].wrote}}

\* a document is written if and only if one of its fields was overwritten,
\* at the output root joined with its relative path; files_modified counts
\* the documents written; nothing else on disk changes
WritesExactlyModified ==
    /\ \A n \in 1..Len(m_log) :
          LET e == m_log[n] IN
          /\ e.wrote <=> e.data # e.loaded
          /\ e.dst = Join(m_args.output_dir, RelPath(e.src, SourceRoot))
          /\ e.wrote => (e.dst \in DOMAIN fs /\ fs[e.dst] = e.data)
    /\ m_stats.files_modified = Cardinality({n \in 1..Len(m_log) : m_log[n].wrote})
    /\ \A p \in DOMAIN fs \ WrittenPaths : p \in DOMAIN m_fs0 /\ fs[p] = m_fs0[p]
    /\ DOMAIN m_fs0 \subseteq DOMAIN fs

StatedTranslations(raw) ==
    IF raw.kind = "list"
    THEN {raw.v[i].key : i \in {j \in 1..Len(raw.v) :
              raw.v[j].key # <<>> /\ raw.v[j].translation # <<>>}}
    ELSE IF raw.kind = "dict" THEN {raw.v[i].key : i \in 1..Len(raw.v)}
    ELSE {}

\* the keys of the catalog matched to a record of a parsed document
MatchedKeys ==
    {k \in StatedTranslations(translation_file) :
        \E n \in 1..Len(ParsedLog) :
            \E i \in 1..Len(Records(ParsedLog[n].loaded)) :
                \E j \in 1..Len(m_args.fields) :
                    LET node == Records(ParsedLog[n].loaded)[i] IN
                    /\ Matched(node, m_args.fields[j], m_map)
                    /\ StatedKey(node, m_args.fields[j]) = k}

\* C10: at the end of a merge that loaded its catalog, translations_unused
\* is the number of translations of the catalog minus the number of distinct
\* keys matched to a record; it is not negative; each key that matches no
\* record is counted once and no string is applied for it.
C10_UnusedCount ==
    (m_pc = "done" /\ translation_file.kind \in {"list", "dict"}) =>
        /\ m_stats.translations_unused =
              Cardinality(StatedTranslations(translation_file)) - Cardinality(MatchedKeys)
        /\ m_stats.translations_unused =
              Cardinality(StatedTranslations(translation_file) \ MatchedKeys)
        /\ m_stats.translations_unused >= 0
        /\ MatchedKeys = {} => m_stats.strings_applied = 0

C10_Witness ==
    /\ m_pc = "done"
    /\ KeyGhost \in StatedTranslations(translation_file)
    /\ MatchedKeys = {KeyChairName}
    /\ m_stats.translations_unused = 1
    /\ m_stats.strings_applied = 1

-----------------------------------------------------------------------------
(* Claims about extract_strings *)

\* the documents this run parsed
ScannedDocs == SelectSeq(x_scanned, LAMBDA e : Parsed(e.loaded))

\* number of entries of the fields list for which the record emits key k
EmitCount(node, k) ==
    IF node.t = "dict" /\ Eligible(node)
    THEN Cardinality({j \in 1..Len(x_args.fields) :
            /\ Emitted(node, x_args.fields[j], x_args.filter_ftl)
            /\ StatedKey(node, x_args.fields[j]) = k})
    ELSE 0

DocEmitCount(doc, k) ==
    SumSeq([i \in 1..Len(Records(doc)) |-> EmitCount(Records(doc)[i], k)])

\* number of strings with key k that the scan of this run emits
ScanEmitCount(k) ==
    SumSeq([n \in 1..Len(ScannedDocs) |-> DocEmitCount(ScannedDocs[n].loaded, k)])

\* every key a record of the model can derive
AllKeys ==
    {MakeKey(pre, f) : pre \in {<<"c">>, <<"Parent_", "p", "_", "s">>}, f \in FieldNames}

-----------------------------------------------------------------------------
(* Claims about the catalog given to merge_translations *)

\* C11: a run of merge_translations whose catalog file is missing or is not
\* valid JSON returns (it does not raise), its statistics are all zero and it
\* has written no document.
C11_CatalogErrorReported ==
    (m_runs > 0 /\ translation_file.kind \in {"missing", "invalid"}) =>
        /\ m_pc = "done"
        /\ m_stats = MergeStats0
        /\ fs = m_fs0

-----------------------------------------------------------------------------
(* Claims about extracting and merging back *)

\* the records of the parsed documents of a tree
RecordsOfTree(tree) ==
    UNION {{Records(tree[p])[i] : i \in 1..Len(Records(tree[p]))} :
           p \in {q \in DOMAIN tree : Under(q, SourceRoot) /\ IsYaml(q) /\ Parsed(tree[q])}}

\* two fields of records of the tree derive the same key and hold different
\* values
Clash(tree, fields) ==
    \E r1, r2 \in RecordsOfTree(tree) : \E j1, j2 \in 1..Len(fields) :
        /\ r1.t = "dict" /\ r2.t = "dict"
        /\ Eligible(r1) /\ Eligible(r2)
        /\ Has(r1, fields[j1]) /\ Has(r2, fields[j2])
        /\ StatedKey(r1, fields[j1]) = StatedKey(r2, fields[j2])
        /\ Get(r1, fields[j1]) # Get(r2, fields[j2])

\* the merge that follows the extraction has finished
RoundDone ==
    /\ m_pc = "done"
    /\ m_runs = 1
    /\ translation_file = FedBack(catalog_file)

NothingMerged ==
    /\ m_stats.strings_applied = 0
    /\ m_stats.files_modified = 0
    /\ fs = m_fs0

\* C12 as stated: for any document tree, merging the extracted catalog with
\* every translation equal to its original applies no string, modifies no
\* file and writes no document.
C12_RoundTripAnyTree == RoundDone => NothingMerged

\* C12: when the fields of records of the tree that derive the same key
\* hold the same value, merging the extracted catalog with every
\* translation equal to its original applies no string, modifies no file
\* and writes no document.
C12_RoundTripNoClash ==
    (RoundDone /\ ~Clash(m_fs0, m_args.fields)) => NothingMerged

C12_Witness ==
    /\ RoundDone
    /\ ~Clash(m_fs0, m_args.fields)
    /\ Len(catalog_file.v) >= 2
    /\ m_stats.strings_skipped >= 2
    /\ NothingMerged

-----------------------------------------------------------------------------
(* Claims about merging twice *)

\* a run of merge_translations in place that follows another one with the
\* same catalog has finished
SecondMergeDone ==
    /\ m_pc = "done"
    /\ m_runs >= 2
    /\ m_args.output_dir = SourceRoot

\* C13 as stated: a second merge in place with the same catalog applies no
\* translation, modifies no file and leaves every document as the first
\* merge left it.
C13_MergeIdempotent == SecondMergeDone => NothingMerged

\* the fields the key of a record is derived from
KeyFields == {"id", "parent", "suffix"}

NamesKeyField(fields) == \E j \in 1..Len(fields) : fields[j] \in KeyFields

\* C13: when `fields` names none of id, parent and suffix, a second merge in
\* place with the same catalog applies no translation, modifies no file and
\* leaves every document as the first merge left it.
C13_MergeIdempotentFixedKeys ==
    (SecondMergeDone /\ ~NamesKeyField(m_args.fields)) => NothingMerged

C13_Witness ==
    /\ SecondMergeDone
    /\ ~NamesKeyField(m_args.fields)
    /\ fs[Join(SourceRoot, FileA)].t = "dict"
    /\ Get(fs[Join(SourceRoot, FileA)], "description") = Str(<<"T">>)
    /\ m_stats.strings_skipped >= 2
    /\ NothingMerged

-----------------------------------------------------------------------------
(* Claims about incremental runs of extract_strings *)

\* the number of times an entry occurs in a catalog
Occurrences(entries, e) == Cardinality({i \in 1..Len(entries) : entries[i] = e})

EntriesOf(entries) == {entries[i] : i \in 1..Len(entries)}

\* the same entries, each as many times, in any order
SameEntries(a, b) ==
    \A e \in EntriesOf(a) \cup EntriesOf(b) : Occurrences(a, e) = Occurrences(b, e)

\* an incremental run has finished that followed another incremental run,
\* the source tree not having been edited in between
SecondIncrementalDone ==
    /\ x_pc = "done"
    /\ x_args.incremental
    /\ x_hist.inc0
    /\ ~x_hist.edited0

\* C14: the second of two incremental runs with no change to the source
\* tree in between skips every file it visits and writes a catalog with
\* exactly the entries of the first run's catalog, in any order.
C14_SecondRunSameCatalog ==
    SecondIncrementalDone =>
        /\ x_stats.files_skipped = Len(x_files)
        /\ x_stats.files_skipped = x_stats.files_scanned
        /\ SameEntries(catalog_file.v, x_hist.catalog0.v)

\* lines 941-973 as a function of the tree: the entries a run that scans
\* every file of the tree emits, file after file in the order of the walk
RECURSIVE FullScan(_, _, _, _, _)
FullScan(tree, files, fields, filter_ftl, extracted_data) ==
    IF files = <<>> THEN extracted_data
    ELSE LET data == tree[Head(files)]
             next == IF Parsed(data)
                     THEN ExtractDocument(data, extracted_data,
                                          RelPath(Head(files), SourceRoot), fields,
                                          ExtractStats0(fields), filter_ftl).data
                     ELSE extracted_data
         IN  FullScan(tree, Tail(files), fields, filter_ftl, next)

\* the catalog a non-incremental run over the current tree would write
FullCatalog ==
    FullScan(fs, Walk(fs, SourceRoot), x_args.fields, x_args.filter_ftl, <<>>)

\* C15: the catalog written by an incremental run holds exactly the entries
\* a non-incremental run over the current tree would write.
C15_IncrementalEqualsFull ==
    (x_pc = "done" /\ x_args.incremental /\ ~x_hist.edited) =>
        SameEntries(catalog_file.v, FullCatalog)

\* the number of entries the scan of this run emitted
ScannedCount ==
    SumSeq([n \in 1..Len(ScannedDocs) |->
        SumSeq([i \in 1..Len(Records(ScannedDocs[n].loaded)) |->
            IF Records(ScannedDocs[n].loaded)[i].t = "dict"
               /\ Eligible(Records(ScannedDocs[n].loaded)[i])
            THEN Cardinality({j \in 1..Len(x_args.fields) :
                    Emitted(Records(ScannedDocs[n].loaded)[i],
                            x_args.fields[j], x_args.filter_ftl)})
            ELSE 0])])

\* the relative paths of the files this run visited
Visited == {RelPath(x_files[i], SourceRoot) : i \in 1..Len(x_files)}

\* the entries of the catalog file as it was when this run started
PreviousEntries ==
    IF x_hist.catalog0.kind = "list" THEN EntriesOf(x_hist.catalog0.v) ELSE {}

\* C16: in the catalog written by an incremental run, the entries after the
\* scanned ones are entries of the previous catalog, one per key, with keys
\* different from every scanned entry's key, each naming in its context a
\* file visited in this run; no entry of the previous catalog whose file was
\* not found in the tree is in the new catalog.
C16_CarryForward ==
    (x_pc = "done" /\ x_args.incremental) =>
        LET written == catalog_file.v
            carried == (ScannedCount + 1)..Len(written)
        IN  /\ \A i \in carried :
                  /\ written[i] \in PreviousEntries
                  /\ \A j \in 1..ScannedCount : written[j].key # written[i].key
                  /\ \A j \in carried : written[j].key = written[i].key => j = i
                  /\ ContextFile(written[i]).ok
                  /\ ContextFile(written[i]).path \in Visited
            /\ \A e \in PreviousEntries :
                  (ContextFile(e).ok /\ ContextFile(e).path \notin Visited) =>
                      e \notin EntriesOf(written)

C16_Witness ==
    /\ x_pc = "done"
    /\ x_args.incremental
    /\ Len(catalog_file.v) > ScannedCount
    /\ \E e \in PreviousEntries : ContextFile(e).path \notin Visited
    /\ \E e \in PreviousEntries : e \in EntriesOf(catalog_file.v)

\* C17: a non-incremental run reads no hash cache and leaves the cache file
\* as it was; an incremental run leaves it as it was until the end, where it
\* writes the catalog first and the cache file once after it; the cache file
\* then maps exactly the relative paths of the files visited in the run,
\* scanned or skipped, each to the digest of the file's current content, so
\* that the path of a file removed from the tree is not in it.
C17_CacheFile ==
    /\ x_pc = "loop" =>
          /\ x_hist.writes = <<>>
          /\ cache_file = x_hist.cache0
          /\ catalog_file = x_hist.catalog0
    /\ (x_pc \in {"loop", "done"} /\ ~x_args.incremental) =>
          /\ x_hash_cache = <<>>
          /\ x_new_cache = <<>>
          /\ cache_file = x_hist.cache0
    /\ (x_pc = "done" /\ ~x_args.incremental) => x_hist.writes = <<"catalog">>
    /\ (x_pc = "done" /\ x_args.incremental) =>
          /\ x_hist.writes = <<"catalog", "cache">>
          /\ x_hash_cache = x_hist.cache0
          /\ DOMAIN cache_file = Visited
          /\ x_stats.files_scanned = Cardinality(Visited)
          /\ ~x_hist.edited =>
                /\ Visited = {RelPath(p, SourceRoot) :
                                 p \in {q \in DOMAIN fs : Under(q, SourceRoot) /\ IsYaml(q)}}
                /\ \A p \in Visited :
                      cache_file[p] = compute_file_hash(fs[Join(SourceRoot, p)])

C17_Witness ==
    /\ x_pc = "done"
    /\ x_args.incremental
    /\ ~x_hist.edited
    /\ x_hist.writes = <<"catalog", "cache">>
    /\ x_stats.files_skipped = 1
    /\ DOMAIN cache_file = {FileA}
    /\ DOMAIN x_hist.cache0 = {FileA, FileB}
    /\ Join(SourceRoot, FileB) \notin DOMAIN fs

-----------------------------------------------------------------------------
(* Claims about extract_strings_by_folder *)

\* the number of times an entry occurs in the JSON files of a directory
RECURSIVE CountInFiles(_, _, _)
CountInFiles(out, paths, e) ==
    IF paths = {} THEN 0
    ELSE LET p == CHOOSE q \in paths : TRUE IN
         Occurrences(out[p], e) + CountInFiles(out, paths \ {p}, e)

RECURSIVE LenOfFiles(_, _)
LenOfFiles(out, paths) ==
    IF paths = {} THEN 0
    ELSE LET p == CHOOSE q \in paths : TRUE IN
         Len(out[p]) + LenOfFiles(out, paths \ {p})

\* the group the claim names for a source file: its directory relative to
\* the root, "root" for a file directly in the root
StatedGroup(rel_path) ==
    IF ~Contains(rel_path, "/") THEN <<"root">>
    ELSE SubSeq(rel_path, 1, LastSlash(rel_path) - 1)

\* the grouped run and a non-incremental run of extract_strings over the
\* same tree have both finished
BothDone ==
    /\ f_pc = "done"
    /\ x_pc = "done"
    /\ ~x_args.incremental

\* C19: the group catalogs together hold exactly the entries of the catalog
\* of a non-incremental extract_strings run with the same tree, fields and
\* filter; every entry is in the catalog of the group of its source file;
\* exactly the non-empty groups have a catalog file; folder_count is the
\* number of catalog files and total_strings the number of entries written.
C19_ByFolder ==
    BothDone =>
        /\ \A e \in EntriesOf(catalog_file.v)
                    \cup UNION {EntriesOf(f_out[p]) : p \in DOMAIN f_out} :
              Occurrences(catalog_file.v, e) = CountInFiles(f_out, DOMAIN f_out, e)
        /\ \A p \in DOMAIN f_out : \A i \in 1..Len(f_out[p]) :
              /\ ContextFile(f_out[p][i]).ok
              /\ p = GroupFile(f_args.output_dir,
                               StatedGroup(ContextFile(f_out[p][i]).path))
        /\ DOMAIN f_out =
              {GroupFile(f_args.output_dir, StatedGroup(ContextFile(e).path)) :
                  e \in EntriesOf(catalog_file.v)}
        /\ \A p \in DOMAIN f_out : f_out[p] # <<>>
        /\ f_stats.folder_count = Cardinality(DOMAIN f_out)
        /\ f_stats.total_strings = LenOfFiles(f_out, DOMAIN f_out)
        /\ f_stats.total_strings = Len(catalog_file.v)

C19_Witness ==
    /\ BothDone
    /\ f_stats.folder_count = 3
    /\ Cardinality({ContextFile(e).path :
           e \in EntriesOf(f_out[Join(f_args.output_dir, <<"root", ".json">>)])}) = 3
    /\ Len(f_out[Join(f_args.output_dir, <<"d", "/", "e", ".json">>)]) = 1
    /\ Join(f_args.output_dir, <<"d", ".json">>) \in DOMAIN f_out

-----------------------------------------------------------------------------
(* Claims about the pre-translated marker *)

\* the text has a character in U+4E00..U+9FFF
HasCjk(text) == \E i \in 1..Len(text) : text[i] = "U4E2D"

\* the entry carries translation = original and stage = 1 exactly when its
\* original has such a character, and neither field otherwise
MarkedRight(e) ==
    IF HasCjk(e.original)
    THEN e.translation = Str(e.original) /\ e.stage = 1
    ELSE e.translation = Absent /\ e.stage = 0

\* stats.get(name, 0)
StatOf(stats, name) == IF name \in DOMAIN stats THEN stats[name] ELSE 0

Stage1Count(entries) == Cardinality({i \in 1..Len(entries) : entries[i].stage = 1})

RECURSIVE Stage1InFiles(_, _)
Stage1InFiles(out, paths) ==
    IF paths = {} THEN 0
    ELSE LET p == CHOOSE q \in paths : TRUE IN
         Stage1Count(out[p]) + Stage1InFiles(out, paths \ {p})

\* what C18 says of a run of extract_strings: the entries its scan emitted
\* are marked as stated and the run's translated count is the number of them
\* with stage = 1
MarkedInExtract ==
    x_pc = "done" =>
        /\ \A i \in 1..ScannedCount : MarkedRight(catalog_file.v[i])
        /\ StatOf(x_stats, "translated")
              = Stage1Count(SubSeq(catalog_file.v, 1, ScannedCount))

\* what C18 says of a run of extract_strings_by_folder
MarkedInFolder ==
    f_pc = "done" =>
        /\ \A p \in DOMAIN f_out : \A i \in 1..Len(f_out[p]) : MarkedRight(f_out[p][i])
        /\ StatOf(f_stats, "translated") = Stage1InFiles(f_out, DOMAIN f_out)

\* C18: in every extraction run, single-catalog or grouped, an emitted entry
\* carries translation = original and stage = 1 exactly when its original
\* has a character in U+4E00..U+9FFF and neither field otherwise, and the
\* translated count of the statistics the run returns is the number of
\* entries it emitted with stage = 1.
C18_PreTranslated == MarkedInExtract /\ MarkedInFolder

-----------------------------------------------------------------------------
(* Claims about documents that cannot be loaded *)

\* lines 946-954: the file is skipped by an incremental run
Unchanged(tree, file_path, incremental, hash_cache) ==
    /\ incremental
    /\ RelPath(file_path, SourceRoot) \in DOMAIN hash_cache
    /\ hash_cache[RelPath(file_path, SourceRoot)] = compute_file_hash(tree[file_path])

\* lines 929-1013 as a function of the tree and of what the run loaded at
\* its start: the catalog the run writes
RunCatalog(tree, args, hash_cache, existing) ==
    LET files     == Walk(tree, SourceRoot)
        to_scan   == SelectSeq(files, LAMBDA f :
                         ~Unchanged(tree, f, args.incremental, hash_cache))
        scanned   == FullScan(tree, to_scan, args.fields, args.filter_ftl, <<>>)
        new_cache == [rel \in {RelPath(files[i], SourceRoot) : i \in 1..Len(files)} |->
                         compute_file_hash(tree[Join(SourceRoot, rel)])]
    IN  IF args.incremental /\ existing # <<>>
        THEN scanned \o CarryForward(existing, scanned, new_cache)
        ELSE scanned

\* the files whose loading failed in this run
FailedFiles == {x_scanned[i].src : i \in {j \in 1..Len(x_scanned) : x_scanned[j].warned}}

\* the tree without them
WithoutFailed == [p \in DOMAIN fs \ FailedFiles |-> fs[p]]

\* the catalog of a finished run is the function of the tree it ran over
RunCatalogAgrees ==
    (x_pc = "done" /\ ~x_hist.edited) =>
        catalog_file.v = RunCatalog(fs, x_args, x_hash_cache, x_existing)

\* C20 for extract_strings: the run finishes; a warning is logged for
\* exactly the documents that fail to load, none for a document that parses
\* to empty content; no entry of the catalog names a document that failed
\* to load; and the catalog is the one the run would have written had those
\* documents not been in the tree.
C20_LoadFailureIsolated ==
    (x_pc = "done" /\ ~x_hist.edited) =>
        /\ \A i \in 1..Len(x_scanned) :
              x_scanned[i].warned <=> x_scanned[i].loaded.t = "bad"
        /\ \A e \in EntriesOf(catalog_file.v) :
              Join(SourceRoot, ContextFile(e).path) \notin FailedFiles
        /\ catalog_file.v = RunCatalog(WithoutFailed, x_args, x_hash_cache, x_existing)

\* C20 for merge_translations: a warning is logged for exactly the
\* documents that fail to load; such a document and one that parses to empty
\* content are not written.
LoadFailureInMerge ==
    \A i \in 1..Len(m_log) :
        /\ m_log[i].warned <=> m_log[i].loaded.t = "bad"
        /\ ~Parsed(m_log[i].loaded) => ~m_log[i].wrote /\ m_log[i].data = m_log[i].loaded

-----------------------------------------------------------------------------
(* Claims about PZClient._request_with_retry *)

\* the attempt ended in a network exception or a response with status 429
Retryable(o) ==
    o.kind = "RequestException" \/ (o.kind = "response" /\ o.status = 429)

RetryEnded == r_pc \in {"returned", "raised"}

C30_Safe ==
    /\ API_RETRY_COUNT = 3
    /\ Len(r_log) <= 3
    /\ \A i \in 1..Len(r_log) :
          /\ i < Len(r_log) => Retryable(r_log[i])
          /\ (r_log[i].kind = "response" /\ r_log[i].status # 429)
                => /\ i = Len(r_log)
                   /\ r_result = Returned(r_log[i])
    /\ r_pc = "returned"
          => /\ r_log # <<>>
             /\ r_log[Len(r_log)].kind = "response"
             /\ r_result = Returned(r_log[Len(r_log)])
    /\ (RetryEnded /\ \A i \in 1..Len(r_log) : Retryable(r_log[i]))
          => r_pc = "raised"

\* C30: a call of _request_with_retry makes at most API_RETRY_COUNT (3) HTTP
\* attempts and always terminates; an attempt is followed by another only
\* when it raised a network exception or returned status 429; every other
\* response, 4xx and 5xx included, is returned at once; and when every attempt
\* ended in an exception or a 429 the call raises instead of returning.
C30_RetryBounded == []C30_Safe /\ <>RetryEnded

C30_Witness ==
    /\ r_pc = "raised"
    /\ r_log = <<RequestException, Response(429, "absent"), Response(429, "seconds")>>
    /\ r_result = Raised("RequestException")

-----------------------------------------------------------------------------
(* Claims about App.run_in_thread and App.do_stop *)

\* C23: at most one operation started through run_in_thread is in flight:
\* a call made after an earlier call and before the earlier operation has
\* finished is refused and starts no worker thread.
C23_OneInFlight ==
    Cardinality({w \in Workers : InFlight(w)}) <= 1

\* _run has reported the worker's outcome
Reported(w) == a_outcome[w] # "none"

\* do_stop was accepted after the worker was started and before func ended
StoppedEarly(w) == a_stop[w] \in {"starting", "calling"}

\* C25: every run ends in one of the outcomes stopped, failed, success; it is
\* stopped whenever a stop was requested during the run, failed when no stop
\* was requested and func returned False or raised, success otherwise.  (A
\* stop accepted only after func has ended is left to either reading.)
C25_Outcomes ==
    \A w \in Workers :
        Reported(w) =>
            /\ a_outcome[w] \in {"stopped", "failed", "error", "success"}
            /\ StoppedEarly(w) => a_outcome[w] = "stopped"
            /\ a_stop[w] = "no" =>
                  IF a_result[w] \in {"False", "raised"}
                  THEN a_outcome[w] \in {"failed", "error"}
                  ELSE a_outcome[w] = "success"

\* C28: a stop request accepted by do_stop is never lost: stop_requested
\* stays true until the worker has finished, should_stop() returns True for
\* the rest of the run, and the run ends with the stopped outcome.
C28_StopKept ==
    \A w \in Workers :
        a_stop[w] # "no" =>
            /\ a_pc[w] \in BeforeCall \cup {"call"} => stop_requested
            /\ a_pc[w] = "call" => should_stop
            /\ Reported(w) /\ StoppedEarly(w) => a_outcome[w] = "stopped"

\* no worker is in flight and at least one has run
AllEnded ==
    /\ \A w \in Workers : ~InFlight(w)
    /\ \E w \in Workers : a_pc[w] = "ended"

C29_Clean ==
    AllEnded => /\ ~is_running
                /\ ~stop_requested
                /\ ~progress_callback
                /\ ~stop_check_callback

\* C29: whenever func returns or raises, the worker eventually sets
\* is_running and stop_requested to false and clears both callbacks;
\* is_running is not left true after its worker has ended, so a later call
\* of run_in_thread is accepted.
C29_CleanupAlways ==
    /\ \A w \in Workers : (a_result[w] # "none") ~> (a_pc[w] = "ended")
    /\ []C29_Clean
    /\ [][(AllEnded /\ a_calls' # a_calls) => Refused' = Refused]_vars

C29_Witness ==
    /\ a_pc[1] = "finally_callbacks"
    /\ a_result[1] = "raised"
    /\ ~is_running
    /\ ~stop_requested
    /\ a_pc[2] = "start"

-----------------------------------------------------------------------------
(* Claims about cooperative cancellation *)

\* after the request at most the file in progress is completed: the loop
\* index is at most one beyond where it was
C24_Upload == stop_at.set => u_i <= stop_at.u + 1

\* C24: once a stop has been requested during extract_strings,
\* extract_strings_by_folder, merge_translations, upload_folder or
\* upload_translation_folder, at most the file being processed when the
\* request arrives is completed and no further file is scanned, merged or
\* uploaded.
C24_StopAtFileBoundary ==
    stop_at.set =>
        /\ x_i <= stop_at.x + 1
        /\ f_i <= stop_at.f + 1
        /\ m_i <= stop_at.m + 1
        /\ u_i <= stop_at.u + 1


-----------------------------------------------------------------------------
(* Claims about run_full_workflow *)

\* the steps started so far are the first steps of the fixed order
StepsInOrder ==
    /\ Len(w_steps) <= Len(StepNames)
    /\ \A i \in 1..Len(w_steps) : w_steps[i].step = StepNames[i]

\* a step has ended
StepEnded(i) == w_steps[i].result # "running"

\* every file of the batch was sent and accepted, and there was one at least
BatchFullySucceeded ==
    u_stats.failed = 0 /\ u_stats.skipped = 0 /\ u_stats.uploaded > 0

\* a step has ended and done its work: the extraction returned, the
\* connection test and the upload succeeded, the download returned True, the
\* merge ran over a translation file that exists
StepSucceeded(i) ==
    CASE w_steps[i].step = "extract"  -> w_steps[i].result = "returned"
      [] w_steps[i].step = "upload"   ->
            IF w_args.by_folder
            THEN w_steps[i].result = "returned" /\ BatchFullySucceeded
            ELSE w_steps[i].result = "True"
      [] w_steps[i].step = "download" -> w_steps[i].result = "True"
      [] w_steps[i].step = "merge"    ->
            w_steps[i].result = "returned" /\ translation_file.kind # "missing"

StepFailed(i) == StepEnded(i) /\ ~StepSucceeded(i)

\* the steps are started in the fixed order, one at a time, none twice and
\* none skipped, and True is returned only after the merge step has run
C21_OrderOnly ==
    /\ StepsInOrder
    /\ \A i \in 1..(Len(w_steps) - 1) : StepEnded(i)
    /\ w_ret = "True" => Len(w_steps) = 4 /\ StepEnded(4)

\* C21: run_full_workflow executes extract, upload, download, merge in this
\* order: a step is started only after every earlier step has completed
\* successfully, no step is started twice or skipped, and True is returned
\* only after the merge step has run.
C21_FixedOrder ==
    /\ C21_OrderOnly
    /\ \A i \in 1..(Len(w_steps) - 1) : StepSucceeded(i)

\* with one catalog file (by_folder false) every step started follows the
\* success of the step before it
C21_SingleFile == ~w_args.by_folder => C21_FixedOrder

\* a merge that finds no translation file is not followed by True
C22_MissingCatalog ==
    (Len(w_steps) = 4 /\ StepEnded(4) /\ translation_file.kind = "missing")
        => w_ret = "False"

\* C22: if any step of run_full_workflow fails (the extraction raises, the
\* connection test or the upload fails, the download fails, or the merge finds
\* no translation file), the function returns False and no later step is
\* started; True is never returned after a failed step.
C22_FailureHalts ==
    \A i \in 1..Len(w_steps) :
        StepFailed(i) => i = Len(w_steps) /\ w_ret = "False"

\* the download step has been started
DownloadStarted == Len(w_steps) >= 3

C26_NoneFailed == (w_args.by_folder /\ DownloadStarted) => u_stats.failed = 0

C26_SomeUploaded == (w_args.by_folder /\ DownloadStarted) => u_stats.uploaded > 0

C26_NotCutShort == (w_args.by_folder /\ DownloadStarted) => u_stats.skipped = 0

\* C26: in by-folder mode the download step is started only if the batch
\* upload fully succeeded: not when a catalog file failed to upload, not when
\* no catalog file was uploaded, not when a stop request cut the batch short.
C26_DownloadAfterFullUpload ==
    (w_args.by_folder /\ DownloadStarted) => BatchFullySucceeded


-----------------------------------------------------------------------------
(* Claims about what process_node_merge overwrites *)

\* the fields named in `fields`
MergeFieldSet == {n_fields[i] : i \in 1..Len(n_fields)}

\* the merge has given the field another value
Overwritten(f) ==
    /\ n_node.t = "dict"
    /\ Has(n_node, f)
    /\ ValNe(Get(n_out, f), Get(n_node, f))

\* extract, run on the record with the same fields and the filter on, has
\* emitted an entry for the field
EntryEmitted(f) ==
    /\ n_node.t = "dict"
    /\ ExtractKeyPrefix(n_node).ok
    /\ \E i \in 1..Len(n_data) :
          n_data[i].key = MakeKey(ExtractKeyPrefix(n_node).prefix, f)

\* the key of the field is in the catalog with a translation that is not
\* empty and is not the field's value
Translated(f) ==
    /\ n_node.t = "dict"
    /\ Has(n_node, f)
    /\ MergeKeyPrefix(n_node).ok
    /\ LET key == MakeKey(MergeKeyPrefix(n_node).prefix, f) IN
          /\ key \in DOMAIN n_map
          /\ Truthy(n_map[key])
          /\ ValNe(n_map[key], Get(n_node, f))

\* the value extract passes over: not a string, blank, or a symbolic key
PassedOver(x) ==
    \/ x.t # "str"
    \/ strip(x.v) = <<>>
    \/ is_ftl_key(x)

\* the catalog is the one extracted from the record as it is
OwnCatalog == DOMAIN n_map = {n_data[i].key : i \in 1..Len(n_data)}

\* C27 as stated: merge overwrites a field only when extract, run on the same
\* record with the same fields and the filter on, would emit an entry for it;
\* a value that is not a string, is blank or is a symbolic key is never
\* overwritten, even if the catalog holds its key.
C27_OnlyExtractedFields ==
    n_pc = "merged" =>
        \A f \in FieldNames :
            Overwritten(f) => EntryEmitted(f) /\ ~PassedOver(Get(n_node, f))

\* C27 as amended: merge overwrites exactly the fields named in `fields` whose
\* key is in the catalog with a non-empty translation different from the
\* value, whatever the value is; with the catalog extracted from the record
\* itself these are fields extract emitted an entry for.
C27_OverwritesByKey ==
    n_pc = "merged" =>
        \A f \in FieldNames :
            /\ Overwritten(f) <=> (f \in MergeFieldSet /\ Translated(f))
            /\ Overwritten(f) =>
                  Get(n_out, f) = n_map[MakeKey(MergeKeyPrefix(n_node).prefix, f)]
            /\ (OwnCatalog /\ Overwritten(f)) => EntryEmitted(f)

\* a value extract passes over has been overwritten with its translation
C27_Witness ==
    /\ n_pc = "merged"
    /\ \E f \in FieldNames :
          /\ Overwritten(f)
          /\ PassedOver(Get(n_node, f))
          /\ ~EntryEmitted(f)
          /\ Get(n_out, f) = NodeTranslation

=============================================================================
